---------------------------- MODULE Spec2Model ----------------------------
(***************************************************************************)
(* The CloudNativePG MCP server (src/src/index.ts, class CNPGMCPServer):   *)
(* the tool-call handler, the read-modify-write protocol of the            *)
(* update-style tools, and the documents compiled by the create-style      *)
(* tools, against a Kubernetes API server holding the custom resources.    *)
(*                                                                         *)
(* A JavaScript object is a function from its keys to its values; a key    *)
(* that is absent (or holds undefined, which JSON serialisation drops) is  *)
(* not in the DOMAIN.  <<>> is the empty object and the empty array.  A    *)
(* template literal is the sequence of its pieces where it is a message,   *)
(* and a concatenated string where it is a resource name or a statement.   *)
(***************************************************************************)
EXTENDS Integers, Sequences, FiniteSets, TLC

VARIABLES
    pc,        \* per handler: where the tool call stands
    req,       \* per handler: request.params (name, arguments)
    cluster,   \* per handler: the local `cluster` object (fetched, then patched)
    pending,   \* per handler: pods whose log read has not returned (getClusterLogs)
    result,    \* per handler: the value the handler returned
    calls,     \* per handler: the remote calls made, in order, with their outcome
    store,     \* API server: resource reference -> stored document
    writes,    \* API server: the writes it accepted, in order
    clock      \* Date.now(), in milliseconds

vars == <<pc, req, cluster, pending, result, calls, store, writes, clock>>

----------------------------------------------------------------------------
(* Bounds of the model *)

MaxClock == 1
MaxOperatorWrites == 1
MaxInstances == 5

----------------------------------------------------------------------------
(* Program constants *)

CNPG_GROUP == "postgresql.cnpg.io"
CNPG_VERSION == "v1"
CLUSTER_PLURAL == "clusters"
BACKUP_PLURAL == "backups"
SCHEDULED_BACKUP_PLURAL == "scheduledbackups"
POOLER_PLURAL == "poolers"
ApiVersion == CNPG_GROUP \o "/" \o CNPG_VERSION

HIBERNATION == "cnpg.io/hibernation"
SWITCHOVER == "cnpg.io/switchover"

----------------------------------------------------------------------------
(* JavaScript objects *)

Has(o, k) == k \in DOMAIN o
Put(o, k, v) == [x \in DOMAIN o \cup {k} |-> IF x = k THEN v ELSE o[x]]
Del(o, k) == [x \in DOMAIN o \ {k} |-> o[x]]
\* Object.assign(target, source)
Assign(target, source) ==
    [x \in DOMAIN target \cup DOMAIN source |->
        IF x \in DOMAIN source THEN source[x] ELSE target[x]]
\* o[k] = a[ak], as serialised: undefined leaves no key
PutArg(o, k, a, ak) == IF Has(a, ak) THEN Put(o, k, a[ak]) ELSE Del(o, k)
\* truthiness of an optional string / number / boolean / object property
TruthyStr(o, k) == Has(o, k) /\ o[k] # ""
TruthyNum(o, k) == Has(o, k) /\ o[k] # 0
TruthyBool(o, k) == Has(o, k) /\ o[k]
TruthyObj(o, k) == Has(o, k)
\* `${o.k}` for a string and for a number
Str(o, k) == IF Has(o, k) THEN o[k] ELSE "undefined"
Num(o, k) == IF Has(o, k) THEN ToString(o[k]) ELSE "undefined"

RECURSIVE Join(_, _)
\* Array.prototype.join(sep)
Join(a, sep) ==
    IF Len(a) = 0 THEN ""
    ELSE IF Len(a) = 1 THEN a[1]
    ELSE a[1] \o sep \o Join(Tail(a), sep)

\* the outcome of a synchronous block: a value, or a thrown error
Value(v) == [threw |-> FALSE, value |-> v]
Threw(m) == [threw |-> TRUE, message |-> m]

----------------------------------------------------------------------------
(* The patch each update-style tool applies to the fetched `cluster`, between *)
(* its get and its replace.  p holds the parameters of the method.            *)

NoSpec(what) == Threw("Cannot set properties of undefined (setting '" \o what \o "')")
NoSpecRead(what) == Threw("Cannot read properties of undefined (reading '" \o what \o "')")

\* a scale that leaves the replica count as fetched (what C12 rules out)
scaleClusterKeepCount(c, p) == IF ~Has(c, "spec") THEN NoSpec("instances") ELSE Value(c)

\* a scale that rebuilds the spec from the replica count alone (what C1 rules out)
scaleClusterFreshSpec(c, p) ==
    IF ~Has(c, "spec") THEN NoSpec("instances")
    ELSE Value(Put(c, "spec", PutArg(<<>>, "instances", p, "instances")))

\* cluster.spec.instances = instances
scaleClusterPatch(c, p) ==
    IF ~Has(c, "spec") THEN NoSpec("instances")
    ELSE Value(Put(c, "spec", PutArg(c.spec, "instances", p, "instances")))

\* if (!cluster.metadata.annotations) cluster.metadata.annotations = {}
WithAnnotations(c) ==
    IF Has(c.metadata, "annotations") THEN c
    ELSE Put(c, "metadata", Put(c.metadata, "annotations", <<>>))

SetAnnotation(c, key, v) ==
    Put(c, "metadata", Put(c.metadata, "annotations", Put(c.metadata.annotations, key, v)))

\* JSON.stringify(switchoverSpec)
switchoverSpec(p) ==
    "{\"switchoverTo\":\""
        \o (IF TruthyStr(p, "targetPrimary") THEN p.targetPrimary ELSE "any") \o "\"}"

\* a switchover that writes an annotations map of its own (what C22 rules out)
switchoverPrimaryFreshAnnotations(c, p) ==
    Value(Put(c, "metadata",
              Put(c.metadata, "annotations", Put(<<>>, SWITCHOVER, switchoverSpec(p)))))

switchoverPrimaryPatch(c, p) ==
    Value(SetAnnotation(WithAnnotations(c), SWITCHOVER, switchoverSpec(p)))

\* a pause that writes a metadata of its own, without the namespace (what C20 rules out)
pauseClusterFreshMetadata(c, p) ==
    Value(Put(c, "metadata",
              [name |-> c.metadata.name, annotations |-> Put(<<>>, HIBERNATION, "on")]))

pauseClusterPatch(c, p) ==
    Value(SetAnnotation(WithAnnotations(c), HIBERNATION, "on"))

\* a resume that leaves the document as fetched (what C8 rules out)
resumeClusterUnchanged(c, p) == Value(c)

\* if (annotations && annotations["cnpg.io/hibernation"]) delete annotations[...]
resumeClusterPatch(c, p) ==
    IF Has(c.metadata, "annotations") /\ TruthyStr(c.metadata.annotations, HIBERNATION)
    THEN Value(Put(c, "metadata",
                   Put(c.metadata, "annotations", Del(c.metadata.annotations, HIBERNATION))))
    ELSE Value(c)

\* if (!spec.postgresql) spec.postgresql = {}; if (!spec.postgresql.parameters) ... = {}
WithParameters(spec) ==
    LET pg == IF Has(spec, "postgresql") THEN spec.postgresql ELSE <<>>
    IN  Put(spec, "postgresql",
            IF Has(pg, "parameters") THEN pg ELSE Put(pg, "parameters", <<>>))

SetParameters(spec, params) ==
    Put(spec, "postgresql", Put(spec.postgresql, "parameters", params))

patchClusterConfigPatch(c, p) ==
    IF ~Has(c, "spec")
    THEN IF TruthyObj(p, "postgresqlConfig") THEN NoSpecRead("postgresql")
         ELSE IF TruthyObj(p, "resources") THEN NoSpec("resources")
         ELSE Value(c)
    ELSE LET s1 == IF TruthyObj(p, "postgresqlConfig")
                   THEN LET w == WithParameters(c.spec)
                        IN  SetParameters(w, Assign(w.postgresql.parameters, p.postgresqlConfig))
                   ELSE c.spec
             s2 == IF TruthyObj(p, "resources") THEN Put(s1, "resources", p.resources) ELSE s1
         IN  Value(Put(c, "spec", s2))

upgradePostgresVersionPatch(c, p) ==
    IF ~Has(c, "spec") THEN NoSpec("imageName")
    ELSE LET s1 == Put(c.spec, "imageName", "postgres:" \o Str(p, "postgresVersion"))
             s2 == IF TruthyStr(p, "strategy")
                   THEN Put(s1, "postgresql",
                            Put(IF Has(s1, "postgresql") THEN s1.postgresql ELSE <<>>,
                                "upgradeStrategy", p.strategy))
                   ELSE s1
         IN  Value(Put(c, "spec", s2))

\* { name: args.tablespaceName, storage: { size: args.size, storageClass: args.storageClass } }
tablespace(p) ==
    PutArg([storage |-> PutArg(PutArg(<<>>, "size", p, "size"),
                               "storageClass", p, "storageClass")],
           "name", p, "tablespaceName")

\* an append that skips an entry the array already holds (what C13 rules out)
manageTablespacesOnce(c, p) ==
    IF ~Has(c, "spec") THEN NoSpecRead("tablespaces")
    ELSE LET cur == IF Has(c.spec, "tablespaces") THEN c.spec.tablespaces ELSE <<>>
         IN  Value(Put(c, "spec",
                       Put(c.spec, "tablespaces",
                           IF \E i \in DOMAIN cur : cur[i] = tablespace(p) THEN cur
                           ELSE Append(cur, tablespace(p)))))

manageTablespacesPatch(c, p) ==
    IF ~Has(c, "spec") THEN NoSpecRead("tablespaces")
    ELSE LET cur == IF Has(c.spec, "tablespaces") THEN c.spec.tablespaces ELSE <<>>
         IN  Value(Put(c, "spec", Put(c.spec, "tablespaces", Append(cur, tablespace(p)))))

\* the three if (!...) blocks that create spec.bootstrap.initdb.postInitApplicationSQL
WithPostInitSQL(spec) ==
    LET b == IF Has(spec, "bootstrap") THEN spec.bootstrap ELSE <<>>
        i == IF Has(b, "initdb") THEN b.initdb ELSE <<>>
        q == IF Has(i, "postInitApplicationSQL") THEN i.postInitApplicationSQL ELSE <<>>
    IN  Put(spec, "bootstrap", Put(b, "initdb", Put(i, "postInitApplicationSQL", q)))

PostInitSQL(spec) == spec.bootstrap.initdb.postInitApplicationSQL

SetPostInitSQL(spec, q) ==
    Put(spec, "bootstrap",
        Put(spec.bootstrap, "initdb", Put(spec.bootstrap.initdb, "postInitApplicationSQL", q)))

createDbSql(p) ==
    "CREATE DATABASE \"" \o Str(p, "databaseName") \o "\""
        \o (IF TruthyStr(p, "owner") THEN " OWNER \"" \o p.owner \o "\"" ELSE "")
        \o (IF TruthyStr(p, "encoding") THEN " ENCODING '" \o p.encoding \o "'" ELSE "")

createDatabaseDeclarativePatch(c, p) ==
    IF ~Has(c, "spec") THEN NoSpecRead("bootstrap")
    ELSE LET w == WithPostInitSQL(c.spec)
         IN  Value(Put(c, "spec", SetPostInitSQL(w, Append(PostInitSQL(w), createDbSql(p)))))

\* extensions.forEach(ext => ...push(`CREATE EXTENSION IF NOT EXISTS ${ext};`))
extensionSql(exts) == [i \in DOMAIN exts |-> "CREATE EXTENSION IF NOT EXISTS " \o exts[i] \o ";"]

manageExtensionsPatch(c, p) ==
    IF ~Has(c, "spec") THEN NoSpecRead("bootstrap")
    ELSE IF ~Has(p, "extensions") THEN NoSpecRead("forEach")
    ELSE LET w == WithPostInitSQL(c.spec)
         IN  Value(Put(c, "spec",
                       SetPostInitSQL(w, PostInitSQL(w) \o extensionSql(p.extensions))))

setSynchronousReplicationPatch(c, p) ==
    IF ~Has(c, "spec") THEN NoSpecRead("postgresql")
    ELSE LET w  == WithParameters(c.spec)
             p1 == Put(w.postgresql.parameters, "synchronous_commit",
                       IF TruthyBool(p, "enabled") THEN "on" ELSE "off")
             p2 == IF TruthyBool(p, "enabled") /\ TruthyObj(p, "syncStandbyNames")
                   THEN Put(p1, "synchronous_standby_names", Join(p.syncStandbyNames, ","))
                   ELSE p1
         IN  Value(Put(c, "spec", SetParameters(w, p2)))

----------------------------------------------------------------------------
(* The document each create-style tool compiles from its arguments.  now is *)
(* Date.now().                                                              *)

\* const { x = d } = args
Default(a, k, d) == IF Has(a, k) THEN a[k] ELSE d
\* args.x || d, for a number and for a string
OrNum(a, k, d) == IF TruthyNum(a, k) THEN a[k] ELSE d
OrStr(a, k, d) == IF TruthyStr(a, k) THEN a[k] ELSE d

\* metadata: { name, namespace }
Metadata(a, nameKey) == PutArg(PutArg(<<>>, "name", a, nameKey), "namespace", a, "namespace")

\* storage: { size: storageSize, ...(storageClass && { storageClass }) }
storage(a) ==
    LET s == [size |-> Default(a, "storageSize", "10Gi")]
    IN  IF TruthyStr(a, "storageClass") THEN Put(s, "storageClass", a.storageClass) ELSE s

defaultParameters ==
    [max_connections |-> "100", shared_buffers |-> "256MB", effective_cache_size |-> "1GB"]

\* instances: instances || 3 in place of the destructuring default (what C19 rules out)
clusterSpecOr(a) ==
    [apiVersion |-> ApiVersion,
     kind |-> "Cluster",
     metadata |-> Metadata(a, "name"),
     spec |-> [instances |-> OrNum(a, "instances", 3),
               postgresql |-> [parameters |-> defaultParameters],
               bootstrap |-> [initdb |-> [database |-> "app", owner |-> "app",
                                          secret |-> [name |-> Str(a, "name") \o "-app-user"]]],
               storage |-> storage(a),
               monitoring |-> [enabled |-> TRUE]]]

clusterSpec(a) ==
    [apiVersion |-> ApiVersion,
     kind |-> "Cluster",
     metadata |-> Metadata(a, "name"),
     spec |-> [instances |-> Default(a, "instances", 3),
               postgresql |-> [parameters |-> defaultParameters],
               bootstrap |-> [initdb |-> [database |-> "app", owner |-> "app",
                                          secret |-> [name |-> Str(a, "name") \o "-app-user"]]],
               storage |-> storage(a),
               monitoring |-> [enabled |-> TRUE]]]

\* const name = backupName || `${clusterName}-backup-${Date.now()}`
backupNameOf(a, now) ==
    IF TruthyStr(a, "backupName") THEN a.backupName
    ELSE Str(a, "clusterName") \o "-backup-" \o ToString(now)

backupSpec(a, now) ==
    [apiVersion |-> ApiVersion,
     kind |-> "Backup",
     metadata |-> PutArg([name |-> backupNameOf(a, now)], "namespace", a, "namespace"),
     spec |-> [cluster |-> PutArg(<<>>, "name", a, "clusterName")]]

restoreSpec(a) ==
    [apiVersion |-> ApiVersion,
     kind |-> "Cluster",
     metadata |-> Metadata(a, "newClusterName"),
     spec |-> [instances |-> Default(a, "instances", 3),
               postgresql |-> [parameters |-> defaultParameters],
               bootstrap |-> [recovery |-> [backup |-> PutArg(<<>>, "name", a, "backupName")]],
               storage |-> storage(a),
               monitoring |-> [enabled |-> TRUE]]]

scheduledBackupSpec(a) ==
    LET retention == Default(a, "backupRetentionPolicy", "30d")
        s == PutArg([suspend |-> Default(a, "suspend", FALSE),
                     backupOwnerReference |-> "self",
                     cluster |-> PutArg(<<>>, "name", a, "clusterName")],
                    "schedule", a, "schedule")
    IN  [apiVersion |-> ApiVersion,
         kind |-> "ScheduledBackup",
         metadata |-> Metadata(a, "name"),
         spec |-> IF retention # "" THEN Put(s, "retentionPolicy", retention) ELSE s]

replicaCluster(a) ==
    [apiVersion |-> ApiVersion,
     kind |-> "Cluster",
     metadata |-> Metadata(a, "clusterName"),
     spec |-> [instances |-> OrNum(a, "instances", 1),
               replica |-> PutArg(PutArg(<<>>, "primary", a, "primaryCluster"),
                                  "source", a, "source"),
               storage |-> [size |-> OrStr(a, "storageSize", "10Gi")]]]

pooler(a) ==
    [apiVersion |-> ApiVersion,
     kind |-> "Pooler",
     metadata |-> Metadata(a, "poolerName"),
     spec |-> [cluster |-> PutArg(<<>>, "name", a, "clusterName"),
               instances |-> OrNum(a, "instances", 1),
               type |-> OrStr(a, "type", "rw"),
               pgbouncer |-> [poolMode |-> OrStr(a, "poolMode", "session"),
                              parameters |-> IF TruthyObj(a, "pgbouncerConfig")
                                             THEN a.pgbouncerConfig ELSE <<>>]]]

logicalReplica(a) ==
    LET replica == PutArg([enabled |-> TRUE, source |-> "streaming"],
                          "primary", a, "sourceCluster")
    IN  [apiVersion |-> ApiVersion,
         kind |-> "Cluster",
         metadata |-> Metadata(a, "clusterName"),
         spec |-> [instances |-> OrNum(a, "instances", 1),
                   replica |-> IF TruthyStr(a, "publicationName")
                               THEN Put(Put(replica, "source", "logical"),
                                        "publicationName", a.publicationName)
                               ELSE replica,
                   postgresql |-> [parameters |-> [wal_level |-> "logical",
                                                   max_replication_slots |-> "10",
                                                   max_wal_senders |-> "10"]],
                   storage |-> [size |-> OrStr(a, "storageSize", "10Gi")]]]

----------------------------------------------------------------------------
(* The tool catalog: the switch of the CallToolRequestSchema handler *)

UpdateTools ==
    {"scale_cluster", "switchover_primary", "pause_cluster", "resume_cluster",
     "patch_cluster_config", "upgrade_postgres_version", "manage_tablespaces",
     "create_database_declarative", "manage_extensions", "set_synchronous_replication"}

CreateTools ==
    {"create_cluster", "create_backup", "create_scheduled_backup",
     "create_replica_cluster", "create_pooler", "create_logical_replica"}

\* one getNamespacedCustomObject / deleteNamespacedCustomObject call
GetTools == {"get_cluster", "get_cluster_status", "get_backup_details", "get_backup_status"}
DeleteTools == {"delete_cluster", "delete_backup"}
\* one list call on the custom objects
ListTools == {"list_clusters", "list_backups", "list_scheduled_backups"}
\* one list call on the core API (pods, events, secrets)
CoreListTools ==
    {"get_cluster_pods", "get_cluster_events", "get_cluster_metrics",
     "get_cluster_certificates", "get_replication_status"}

Catalog ==
    UpdateTools \cup CreateTools \cup GetTools \cup DeleteTools \cup ListTools
        \cup CoreListTools \cup {"restore_cluster", "get_cluster_logs"}

Pick(a, keys) == [k \in DOMAIN a \cap keys |-> a[k]]

\* the parameters the switch hands to the method, under the method's own names
Params(name, a) ==
    CASE name \in {"get_cluster", "delete_cluster", "get_cluster_status", "get_cluster_pods"}
           -> Pick(a, {"name", "namespace"})
      [] name = "scale_cluster" -> Pick(a, {"name", "namespace", "instances"})
      [] name = "list_clusters" -> Pick(a, {"namespace"})
      [] name \in {"list_backups", "list_scheduled_backups"}
           -> Pick(a, {"namespace", "clusterName"})
      [] name \in {"get_backup_details", "delete_backup"}
           -> Pick(a, {"backupName", "namespace"})
      [] name \in {"get_cluster_events", "get_cluster_metrics", "pause_cluster",
                   "resume_cluster", "get_cluster_certificates", "get_replication_status"}
           -> Pick(a, {"clusterName", "namespace"})
      \* getBackupStatus(backupName, namespace) is called with (args.namespace, args.backupName)
      [] name = "get_backup_status"
           -> PutArg(PutArg(<<>>, "backupName", a, "namespace"), "namespace", a, "backupName")
      [] name = "manage_extensions" -> Pick(a, {"clusterName", "namespace", "extensions"})
      [] OTHER -> a

\* the parameter that names the resource the method addresses
NameKey(name) ==
    CASE name \in {"get_cluster", "delete_cluster", "get_cluster_status", "scale_cluster",
                   "get_cluster_pods"} -> "name"
      [] name \in {"get_backup_details", "delete_backup", "get_backup_status",
                   "restore_cluster"} -> "backupName"
      [] OTHER -> "clusterName"

Plural(name) ==
    CASE name \in {"create_backup", "list_backups", "get_backup_details", "delete_backup",
                   "get_backup_status", "restore_cluster"} -> BACKUP_PLURAL
      [] name \in {"create_scheduled_backup", "list_scheduled_backups"}
           -> SCHEDULED_BACKUP_PLURAL
      [] name = "create_pooler" -> "poolers"
      [] name = "get_cluster_certificates" -> "secrets"
      [] name = "get_cluster_events" -> "events"
      [] name \in {"get_cluster_pods", "get_cluster_metrics", "get_replication_status",
                   "get_cluster_logs"} -> "pods"
      [] OTHER -> CLUSTER_PLURAL

\* the message prefix of the method's catch block
FailedTo(name) ==
    CASE name = "list_clusters" -> "Failed to list clusters: "
      [] name = "get_cluster" -> "Failed to get cluster: "
      [] name = "create_cluster" -> "Failed to create cluster: "
      [] name = "delete_cluster" -> "Failed to delete cluster: "
      [] name = "scale_cluster" -> "Failed to scale cluster: "
      [] name = "create_backup" -> "Failed to create backup: "
      [] name = "list_backups" -> "Failed to list backups: "
      [] name = "get_cluster_status" -> "Failed to get cluster status: "
      [] name = "get_cluster_pods" -> "Failed to get cluster pods: "
      [] name = "restore_cluster" -> "Failed to restore cluster: "
      [] name = "get_backup_details" -> "Failed to get backup details: "
      [] name = "delete_backup" -> "Failed to delete backup: "
      [] name = "get_cluster_events" -> "Failed to get cluster events: "
      [] name = "create_scheduled_backup" -> "Failed to create scheduled backup: "
      [] name = "list_scheduled_backups" -> "Failed to list scheduled backups: "
      [] name = "get_cluster_logs" -> "Failed to get cluster logs: "
      [] name = "switchover_primary" -> "Failed to perform switchover: "
      [] name = "get_cluster_metrics" -> "Failed to get cluster metrics: "
      [] name = "pause_cluster" -> "Failed to pause cluster: "
      [] name = "resume_cluster" -> "Failed to resume cluster: "
      [] name = "patch_cluster_config" -> "Failed to patch cluster configuration: "
      [] name = "create_replica_cluster" -> "Failed to create replica cluster: "
      [] name = "get_cluster_certificates" -> "Failed to get cluster certificates: "
      [] name = "create_pooler" -> "Failed to create pooler: "
      [] name = "upgrade_postgres_version" -> "Failed to upgrade PostgreSQL version: "
      [] name = "get_backup_status" -> "Failed to get backup status: "
      [] name = "create_logical_replica" -> "Failed to create logical replica: "
      [] name = "manage_tablespaces" -> "Failed to manage tablespaces: "
      [] name = "create_database_declarative" -> "Failed to create database declaratively: "
      [] name = "get_replication_status" -> "Failed to get replication status: "
      [] name = "manage_extensions" -> "Failed to manage extensions: "
      [] name = "set_synchronous_replication" -> "Failed to set synchronous replication: "

\* the patch of an update-style tool
Patch(name, c, p) ==
    CASE name = "scale_cluster" -> scaleClusterPatch(c, p)
      [] name = "switchover_primary" -> switchoverPrimaryPatch(c, p)
      [] name = "pause_cluster" -> pauseClusterPatch(c, p)
      [] name = "resume_cluster" -> resumeClusterPatch(c, p)
      [] name = "patch_cluster_config" -> patchClusterConfigPatch(c, p)
      [] name = "upgrade_postgres_version" -> upgradePostgresVersionPatch(c, p)
      [] name = "manage_tablespaces" -> manageTablespacesPatch(c, p)
      [] name = "create_database_declarative" -> createDatabaseDeclarativePatch(c, p)
      [] name = "manage_extensions" -> manageExtensionsPatch(c, p)
      [] name = "set_synchronous_replication" -> setSynchronousReplicationPatch(c, p)

\* the document of a create-style tool (restore_cluster included)
Compile(name, a, now) ==
    CASE name = "create_cluster" -> clusterSpec(a)
      [] name = "create_backup" -> backupSpec(a, now)
      [] name = "restore_cluster" -> restoreSpec(a)
      [] name = "create_scheduled_backup" -> scheduledBackupSpec(a)
      [] name = "create_replica_cluster" -> replicaCluster(a)
      [] name = "create_pooler" -> pooler(a)
      [] name = "create_logical_replica" -> logicalReplica(a)

----------------------------------------------------------------------------
(* The results the handler returns *)

\* JSON.stringify(v, null, 2)
Json(v) == ToString(v)

\* { content: [{ type: 'text', text }] }
TextResult(text) == [content |-> <<[type |-> "text", text |-> text]>>]

\* an error text that leaves the tool's name out (what C25 rules out)
ErrorResultUnnamed(name, message) == TextResult(<<"Error executing tool: ">> \o message)

\* the catch block of the handler: `Error executing ${name}: ${error.message}`
ErrorResult(name, message) == TextResult(<<"Error executing ", name, ": ">> \o message)

\* the return statement of an update-style or create-style method; c is its document
SuccessText(name, p, c) ==
    CASE name = "scale_cluster"
           -> <<"Successfully scaled cluster '", Str(p, "name"), "' to ",
                Num(p, "instances"), " instances.">>
      [] name = "switchover_primary"
           -> LET from == IF Has(c, "status") THEN Str(c.status, "currentPrimary")
                          ELSE "undefined"
              IN  IF TruthyStr(p, "targetPrimary")
                  THEN <<"Switchover initiated for cluster '", Str(p, "clusterName"),
                         "' from '", from, "' to '", p.targetPrimary, "'.">>
                  ELSE <<"Automatic switchover initiated for cluster '",
                         Str(p, "clusterName"), "' from '", from, "'.">>
      [] name = "pause_cluster"
           -> <<"Successfully paused cluster '", Str(p, "clusterName"),
                "'. The cluster is now hibernating and pods will be removed while preserving data.">>
      [] name = "resume_cluster"
           -> <<"Successfully resumed cluster '", Str(p, "clusterName"),
                "'. The cluster will restart and pods will be recreated.">>
      [] name = "patch_cluster_config"
           -> <<"Successfully updated configuration for cluster '", Str(p, "clusterName"),
                "'. Changes will be applied gradually during rolling update.">>
      [] name = "upgrade_postgres_version"
           -> <<"Successfully initiated PostgreSQL upgrade for cluster '",
                Str(p, "clusterName"), "' to version ", Str(p, "postgresVersion"), ".">>
      [] name = "manage_tablespaces"
           -> <<"Successfully added tablespace '", Str(p, "tablespaceName"),
                "' to cluster '", Str(p, "clusterName"), "'.">>
      [] name = "create_database_declarative"
           -> <<"Successfully configured database '", Str(p, "databaseName"),
                "' creation for cluster '", Str(p, "clusterName"), "'.">>
      [] name = "manage_extensions"
           -> <<"Successfully configured extensions ", Join(p.extensions, ", "),
                " for cluster '", Str(p, "clusterName"), "'.">>
      [] name = "set_synchronous_replication"
           -> <<"Successfully ", IF TruthyBool(p, "enabled") THEN "enabled" ELSE "disabled",
                " synchronous replication for cluster '", Str(p, "clusterName"), "'.">>
      [] name = "create_cluster"
           -> <<"Successfully created PostgreSQL cluster '", Str(p, "name"),
                "' in namespace '", Str(p, "namespace"), "' with ",
                ToString(c.spec.instances), " instances.">>
      [] name = "create_backup"
           -> <<"Successfully created backup '", c.metadata.name, "' for cluster '",
                Str(p, "clusterName"), "'.">>
      [] name = "restore_cluster"
           -> <<"Successfully created cluster '", Str(p, "newClusterName"),
                "' from backup '", Str(p, "backupName"), "' in namespace '",
                Str(p, "namespace"), "' with ", ToString(c.spec.instances), " instances.">>
      [] name = "create_scheduled_backup"
           -> <<"Successfully created scheduled backup '", Str(p, "name"),
                "' for cluster '", Str(p, "clusterName"), "' with schedule '",
                Str(p, "schedule"), "'.">>
      [] name = "create_replica_cluster"
           -> <<"Successfully created replica cluster '", Str(p, "clusterName"),
                "' from primary '", Str(p, "primaryCluster"), "'.">>
      [] name = "create_pooler"
           -> <<"Successfully created pooler '", Str(p, "poolerName"),
                "' for cluster '", Str(p, "clusterName"), "'.">>
      [] name = "create_logical_replica"
           -> <<"Successfully created logical replica cluster '", Str(p, "clusterName"),
                "' from source '", Str(p, "sourceCluster"), "'.">>

\* the return statement of a read-only or delete method; got is what the call returned
\* (the summary a listing builds from the items is kept as the items' serialisation,
\* and the fence of a code block is written ~~~)
ReadText(name, p, got) ==
    CASE name = "list_clusters"
           -> IF got = {}
              THEN IF TruthyStr(p, "namespace")
                   THEN <<"No PostgreSQL clusters found in namespace \"", p.namespace, "\"">>
                   ELSE <<"No PostgreSQL clusters found in any namespace">>
              ELSE <<"Found ", ToString(Cardinality(got)), " PostgreSQL clusters:\n\n", Json(got)>>
      [] name \in {"list_backups", "list_scheduled_backups"}
           -> LET kept == IF TruthyStr(p, "clusterName")
                          THEN {d \in got : /\ Has(d, "spec") /\ Has(d.spec, "cluster")
                                            /\ Has(d.spec.cluster, "name")
                                            /\ d.spec.cluster.name = p.clusterName}
                          ELSE got
              IN  <<"Found ", ToString(Cardinality(kept)),
                    IF name = "list_backups" THEN " backups:\n\n"
                    ELSE " scheduled backups:\n\n", Json(kept)>>
      [] name = "get_cluster"
           -> <<"## Cluster: ", Str(p, "name"), "\n\n~~~json\n", Json(got), "\n~~~">>
      [] name = "get_cluster_status"
           -> <<"Cluster Status for '", Str(p, "name"), "':\n\n", Json(got)>>
      [] name = "get_backup_details"
           -> <<"## Backup Details: ", Str(p, "backupName"), "\n\n~~~json\n", Json(got), "\n~~~">>
      [] name = "get_backup_status"
           -> <<"Backup status for '", Str(p, "backupName"), "':\n\n", Json(got)>>
      [] name = "delete_cluster"
           -> <<"Successfully deleted PostgreSQL cluster '", Str(p, "name"),
                "' from namespace '", Str(p, "namespace"), "'.">>
      [] name = "delete_backup"
           -> <<"Successfully deleted backup '", Str(p, "backupName"),
                "' from namespace '", Str(p, "namespace"), "'.">>
      [] name = "get_cluster_pods"
           -> <<"Pods for cluster '", Str(p, "name"), "':\n\n", Json(got)>>
      [] name = "get_cluster_events"
           -> <<"Events for cluster '", Str(p, "clusterName"), "' (",
                ToString(Len(got)), " events):\n\n", Json(got)>>
      [] name = "get_cluster_metrics"
           -> <<"Metrics for cluster '", Str(p, "clusterName"), "':\n\n", Json(got)>>
      [] name = "get_cluster_certificates"
           -> <<"Certificates for cluster '", Str(p, "clusterName"), "':\n\n", Json(got)>>
      [] name = "get_replication_status"
           -> <<"Replication status for cluster '", Str(p, "clusterName"), "':\n\n", Json(got)>>

\* getClusterLogs: one entry per pod, a failed read kept as `Error fetching logs: ...`
LogsText(p, logs) ==
    <<"Logs for cluster '", Str(p, "clusterName"), "':\n\n", Json(logs)>>

NoPodsText(p) ==
    <<"No pods found for cluster '", Str(p, "clusterName"), "' in namespace '",
      Str(p, "namespace"), "'.">>

----------------------------------------------------------------------------
(* The API server behind customApi and k8sApi *)

Ref(plural, namespace, name) == [plural |-> plural, namespace |-> namespace, name |-> name]

Version(d) == d.metadata.resourceVersion
WithVersion(d, v) == Put(d, "metadata", Put(d.metadata, "resourceVersion", v))

\* a failure of the transport: the request never arrived, or its answer never came back
TransportFailures == {"Transport", "Timeout"}

ErrorMessage(outcome) ==
    CASE outcome = "NotFound" -> "HTTP-Code: 404 Message: Not Found"
      [] outcome = "Conflict" -> "HTTP-Code: 409 Message: Conflict"
      [] outcome = "AlreadyExists" -> "HTTP-Code: 409 Message: AlreadyExists"
      [] outcome = "Invalid" -> "HTTP-Code: 422 Message: Unprocessable Entity"
      [] outcome = "Transport" -> "connect ECONNREFUSED"
      [] outcome = "Timeout" -> "request timed out"

\* the client library refuses a call with a required parameter undefined
RequiredError(key) == "Required parameter " \o key \o " was null or undefined"

\* a replace is refused when its body carries a version token other than the stored one
ReplaceOutcome(st, ref, body) ==
    IF ref \notin DOMAIN st THEN "NotFound"
    ELSE IF Has(body.metadata, "resourceVersion") /\ Version(body) # Version(st[ref])
    THEN "Conflict"
    ELSE "ok"

CreateOutcome(st, plural, namespace, body) ==
    IF ~Has(body.metadata, "name") THEN "Invalid"
    ELSE IF Ref(plural, namespace, body.metadata.name) \in DOMAIN st THEN "AlreadyExists"
    ELSE "ok"

\* the items of a list call
Items(st, plural, p) ==
    {st[r] : r \in {x \in DOMAIN st :
                       /\ x.plural = plural
                       /\ TruthyStr(p, "namespace") => x.namespace = p.namespace}}

\* the pods (events, secrets) the core API lists for a cluster
CoreItems(namespace, clusterName) ==
    IF namespace = "db" /\ clusterName = "prod" THEN <<"prod-1", "prod-2">> ELSE <<>>

----------------------------------------------------------------------------
(* The handlers *)

Handlers == {1, 2}

Log(h, entry) == calls' = [calls EXCEPT ![h] = Append(@, entry)]

\* the handler returns; nothing of the tool call runs after that
Return(h, to, res) ==
    /\ pc' = [pc EXCEPT ![h] = to]
    /\ result' = [result EXCEPT ![h] = res]

\* a failed replace that is tried again from the get (what C16 rules out)
FailWithRetry(h, name, message) ==
    Return(h, IF pc[h] = "replace" THEN "get" ELSE "failed", ErrorResult(name, message))

\* a method's catch block rethrows, and the handler's catch block returns the message
Fail(h, name, message) == Return(h, "failed", ErrorResult(name, message))

Failed(name, inner) == <<FailedTo(name) \o inner>>

\* restoreCluster's first catch block
BackupNotFound(p, inner) ==
    <<"Backup '" \o Str(p, "backupName") \o "' not found in namespace '"
        \o Str(p, "namespace") \o "': " \o inner>>

\* an arguments check that lets list_clusters, which requires no argument, pass
\* (what C29 rules out)
MissingArgumentsWhereRequired(r) == ~r.hasArguments /\ r.name # "list_clusters"

\* if (!args)
MissingArguments(r) == ~r.hasArguments

\* the handler up to its first await: the arguments check, the switch, and the
\* method up to its first remote call
CallTool(h, r) ==
    LET name == r.name
        a == r.arguments
        p == Params(name, a)
    IN
    /\ pc[h] = "idle"
    \* handlers are numbered in the order their calls arrive
    /\ \A g \in Handlers : g < h => pc[g] # "idle"
    /\ req' = [req EXCEPT ![h] = Put(r, "at", clock)]
    /\ UNCHANGED <<calls, store, writes, clock>>
    /\ IF MissingArguments(r)
       THEN Fail(h, name, <<"Missing arguments">>) /\ UNCHANGED <<cluster, pending>>
       ELSE IF name \notin Catalog
       THEN Fail(h, name, <<"Unknown tool: " \o name>>) /\ UNCHANGED <<cluster, pending>>
       ELSE IF name \in UpdateTools \cup GetTools \cup DeleteTools \cup {"restore_cluster"}
       THEN LET lacks == IF ~Has(p, "namespace") THEN "namespace"
                         ELSE IF ~Has(p, NameKey(name)) THEN "name" ELSE ""
            IN  /\ UNCHANGED <<cluster, pending>>
                /\ IF lacks = ""
                   THEN /\ pc' = [pc EXCEPT ![h] =
                                    IF name \in GetTools \cup DeleteTools THEN "read" ELSE "get"]
                        /\ UNCHANGED result
                   ELSE Fail(h, name,
                             IF name = "restore_cluster"
                             THEN BackupNotFound(p, RequiredError(lacks))
                             ELSE Failed(name, RequiredError(lacks)))
       ELSE IF name \in CreateTools
       THEN /\ UNCHANGED pending
            /\ IF Has(p, "namespace")
               THEN /\ cluster' = [cluster EXCEPT ![h] = Compile(name, p, clock)]
                    /\ pc' = [pc EXCEPT ![h] = "create"]
                    /\ UNCHANGED result
               ELSE /\ Fail(h, name, Failed(name, RequiredError("namespace")))
                    /\ UNCHANGED cluster
       ELSE IF name = "list_clusters" \/ (name # "get_cluster_logs" /\ Has(p, "namespace"))
       THEN /\ pc' = [pc EXCEPT ![h] = "read"]
            /\ UNCHANGED <<cluster, pending, result>>
       ELSE IF name # "get_cluster_logs"
       THEN /\ Fail(h, name, Failed(name, RequiredError("namespace")))
            /\ UNCHANGED <<cluster, pending>>
       ELSE IF TruthyStr(p, "podName")
       THEN /\ pending' = [pending EXCEPT ![h] = <<[pod |-> p.podName, logs |-> "pending"]>>]
            /\ pc' = [pc EXCEPT ![h] = "logs"]
            /\ UNCHANGED <<cluster, result>>
       ELSE IF Has(p, "namespace")
       THEN /\ pc' = [pc EXCEPT ![h] = "pods"]
            /\ UNCHANGED <<cluster, pending, result>>
       ELSE /\ Fail(h, name, Failed(name, RequiredError("namespace")))
            /\ UNCHANGED <<cluster, pending>>

\* a failed call reported by the method's last catch block alone (what C24 rules out)
CallFailedUnnamed(name, p, out) == Failed(name, ErrorMessage(out.outcome))

\* what the method makes of a failed call
CallFailed(name, p, out) ==
    IF name = "restore_cluster" /\ out.verb = "get"
    THEN BackupNotFound(p, ErrorMessage(out.outcome))
    ELSE Failed(name, ErrorMessage(out.outcome))

\* the resource an update-style, get or delete method addresses
Target(name, p) == Ref(Plural(name), p.namespace, p[NameKey(name)])

\* a call on the custom objects API, as the server sees it
Call(verb, ref, outcome) ==
    [verb |-> verb, group |-> CNPG_GROUP, version |-> CNPG_VERSION, plural |-> ref.plural,
     namespace |-> ref.namespace, name |-> ref.name, outcome |-> outcome]

\* getNamespacedCustomObject returns: the get of an update-style tool or of restore_cluster
Get(h) ==
    LET name == req[h].name
        p == Params(name, req[h].arguments)
        ref == Target(name, p)
    IN
    /\ pc[h] = "get"
    /\ \E outcome \in {IF ref \in DOMAIN store THEN "ok" ELSE "NotFound"} \cup TransportFailures :
          LET call == Call("get", ref, outcome)
          IN  IF outcome = "ok"
              THEN /\ Log(h, Put(call, "got", store[ref]))
                   /\ cluster' = [cluster EXCEPT ![h] =
                                     IF name = "restore_cluster" THEN Compile(name, p, clock)
                                     ELSE store[ref]]
                   /\ pc' = [pc EXCEPT ![h] =
                                IF name = "restore_cluster" THEN "create" ELSE "fetched"]
                   /\ UNCHANGED result
              ELSE /\ Log(h, call)
                   /\ Fail(h, name, CallFailed(name, p, call))
                   /\ UNCHANGED cluster
    /\ UNCHANGED <<req, pending, store, writes, clock>>

\* a document kept in a field of the server, where the handler that fetched first
\* leaves it for all (what C21 rules out)
FetchedByAny(h) == IF DOMAIN cluster[1] # {} THEN cluster[1] ELSE cluster[h]

\* const cluster = await this.customApi.getNamespacedCustomObject(...): a local of
\* the method call
Fetched(h) == cluster[h]

\* the synchronous code between the get and the replace
PatchCluster(h) ==
    LET name == req[h].name
        patched == Patch(name, Fetched(h), Params(name, req[h].arguments))
    IN
    /\ pc[h] = "fetched"
    /\ IF patched.threw
       THEN Fail(h, name, Failed(name, patched.message)) /\ UNCHANGED cluster
       ELSE /\ cluster' = [cluster EXCEPT ![h] = patched.value]
            /\ pc' = [pc EXCEPT ![h] = "replace"]
            /\ UNCHANGED result
    /\ UNCHANGED <<req, pending, calls, store, writes, clock>>

\* a replace that addresses another cluster than the get (what C2 rules out)
ReplaceTargetElsewhere(name, p) == Ref(Plural(name), p.namespace, "dev")

\* namespace, plural and name of the replace call
ReplaceTarget(name, p) == Target(name, p)

\* a body that leaves the version token out (what C3 rules out)
ReplaceBodyWithoutToken(c) == Put(c, "metadata", Del(c.metadata, "resourceVersion"))

\* body: cluster
ReplaceBody(c) == c

\* replaceNamespacedCustomObject returns
Replace(h) ==
    LET name == req[h].name
        p == Params(name, req[h].arguments)
        ref == ReplaceTarget(name, p)
        body == ReplaceBody(cluster[h])
        server == ReplaceOutcome(store, ref, body)
    IN
    /\ pc[h] = "replace"
    /\ \E outcome \in {server} \cup TransportFailures :
          LET stored == WithVersion(body, Version(store[ref]) + 1)
              accepted == server = "ok" /\ outcome \in {"ok", "Timeout"}
              call == Put(Call("replace", ref, outcome), "body", body)
          IN  /\ Log(h, call)
              /\ store' = IF accepted THEN Put(store, ref, stored) ELSE store
              /\ writes' = IF accepted
                           THEN Append(writes, [by |-> h, ref |-> ref, before |-> store[ref],
                                                after |-> stored])
                           ELSE writes
              /\ IF outcome = "ok"
                 THEN Return(h, "done", TextResult(SuccessText(name, p, cluster[h])))
                 ELSE Fail(h, name, CallFailed(name, p, call))
    /\ UNCHANGED <<req, cluster, pending, clock>>

\* createNamespacedCustomObject returns
Create(h) ==
    LET name == req[h].name
        p == Params(name, req[h].arguments)
        plural == IF name = "restore_cluster" THEN CLUSTER_PLURAL ELSE Plural(name)
        body == cluster[h]
        server == CreateOutcome(store, plural, p.namespace, body)
    IN
    /\ pc[h] = "create"
    /\ \E outcome \in {server} \cup TransportFailures :
          LET stored == WithVersion(body, 1)
              accepted == server = "ok" /\ outcome \in {"ok", "Timeout"}
              call == [verb |-> "create", group |-> CNPG_GROUP, version |-> CNPG_VERSION,
                       plural |-> plural, namespace |-> p.namespace, body |-> body,
                       outcome |-> outcome]
          IN  /\ Log(h, call)
              /\ store' = IF accepted
                          THEN Put(store, Ref(plural, p.namespace, body.metadata.name), stored)
                          ELSE store
              /\ writes' = IF accepted
                           THEN Append(writes,
                                       [by |-> h,
                                        ref |-> Ref(plural, p.namespace, body.metadata.name),
                                        after |-> stored])
                           ELSE writes
              /\ IF outcome = "ok"
                 THEN Return(h, "done", TextResult(SuccessText(name, p, body)))
                 ELSE Fail(h, name, CallFailed(name, p, call))
    /\ UNCHANGED <<req, cluster, pending, clock>>

\* the single call of a get, delete or list tool returns
Read(h) ==
    LET name == req[h].name
        p == Params(name, req[h].arguments)
    IN
    /\ pc[h] = "read"
    /\ UNCHANGED <<req, cluster, pending, clock>>
    /\ IF name \in GetTools \cup DeleteTools
       THEN LET ref == Target(name, p)
                verb == IF name \in GetTools THEN "get" ELSE "delete"
                server == IF ref \in DOMAIN store THEN "ok" ELSE "NotFound"
            IN  \E outcome \in {server} \cup TransportFailures :
                   LET deleted == /\ verb = "delete" /\ server = "ok"
                                  /\ outcome \in {"ok", "Timeout"}
                       call == Call(verb, ref, outcome)
                   IN  /\ Log(h, call)
                       /\ store' = IF deleted THEN Del(store, ref) ELSE store
                       /\ writes' = IF deleted
                                    THEN Append(writes, [by |-> h, ref |-> ref,
                                                         before |-> store[ref]])
                                    ELSE writes
                       /\ IF outcome = "ok"
                          THEN Return(h, "done", TextResult(ReadText(name, p, store[ref])))
                          ELSE Fail(h, name, CallFailed(name, p, call))
       ELSE \E outcome \in {"ok"} \cup TransportFailures :
               LET call == PutArg([verb |-> "list", plural |-> Plural(name),
                                   outcome |-> outcome], "namespace", p, "namespace")
                   got == IF name \in ListTools THEN Items(store, Plural(name), p)
                          ELSE CoreItems(p.namespace, Str(p, NameKey(name)))
               IN  /\ Log(h, call)
                   /\ UNCHANGED <<store, writes>>
                   /\ IF outcome = "ok"
                      THEN Return(h, "done", TextResult(ReadText(name, p, got)))
                      ELSE Fail(h, name, CallFailed(name, p, call))

\* getClusterLogs: listNamespacedPod returns
ListPods(h) ==
    LET name == req[h].name
        p == Params(name, req[h].arguments)
        items == CoreItems(p.namespace, Str(p, "clusterName"))
    IN
    /\ pc[h] = "pods"
    /\ UNCHANGED <<req, cluster, store, writes, clock>>
    /\ \E outcome \in {"ok"} \cup TransportFailures :
          LET call == [verb |-> "list", plural |-> "pods", namespace |-> p.namespace,
                       outcome |-> outcome]
          IN  /\ Log(h, call)
              /\ IF outcome # "ok"
                 THEN Fail(h, name, CallFailed(name, p, call)) /\ UNCHANGED pending
                 ELSE IF Len(items) = 0
                 THEN Return(h, "done", TextResult(NoPodsText(p))) /\ UNCHANGED pending
                 ELSE /\ pending' = [pending EXCEPT ![h] =
                                        [i \in DOMAIN items |->
                                            [pod |-> items[i], logs |-> "pending"]]]
                      /\ pc' = [pc EXCEPT ![h] = "logs"]
                      /\ UNCHANGED result

\* getClusterLogs: one readNamespacedPodLog of the Promise.all returns (or is refused
\* by the client library); its own catch block turns a failure into the pod's logs
ReadPodLog(h, i) ==
    LET name == req[h].name
        p == Params(name, req[h].arguments)
        pod == pending[h][i].pod
    IN
    /\ pc[h] = "logs"
    /\ i \in DOMAIN pending[h]
    /\ pending[h][i].logs = "pending"
    /\ UNCHANGED <<req, cluster, store, writes, clock>>
    /\ \E outcome \in IF Has(p, "namespace") THEN {"ok", "NotFound"} \cup TransportFailures
                      ELSE {"Refused"} :
          LET logs == IF outcome = "ok" THEN "log lines of " \o pod
                      ELSE IF outcome = "Refused"
                      THEN "Error fetching logs: " \o RequiredError("namespace")
                      ELSE "Error fetching logs: " \o ErrorMessage(outcome)
              now == [pending[h] EXCEPT ![i].logs = logs]
          IN  /\ pending' = [pending EXCEPT ![h] = now]
              /\ IF outcome = "Refused" THEN UNCHANGED calls
                 ELSE Log(h, [verb |-> "readLog", plural |-> "pods",
                              namespace |-> p.namespace, name |-> pod, outcome |-> outcome])
              /\ IF \A j \in DOMAIN now : now[j].logs # "pending"
                 THEN Return(h, "done", TextResult(LogsText(p, now)))
                 ELSE UNCHANGED <<pc, result>>

----------------------------------------------------------------------------
(* The environment *)

OperatorWrites == Len(SelectSeq(writes, LAMBDA w : w.by = 0))

\* the CloudNativePG operator writes the status of a cluster between the get and the
\* replace of a tool call on it (a write before the get is one of the documents the
\* model starts from)
OperatorWrite ==
    /\ OperatorWrites < MaxOperatorWrites
    /\ \E h \in Handlers :
          /\ pc[h] \in {"fetched", "replace"}
          /\ LET ref == Target(req[h].name, Params(req[h].name, req[h].arguments))
                 d == store[ref]
                 status == IF Has(d, "status") THEN d.status ELSE <<>>
                 stored == WithVersion(Put(d, "status", Put(status, "phase", "reconciled")),
                                       Version(d) + 1)
             IN  /\ store' = Put(store, ref, stored)
                 /\ writes' = Append(writes, [by |-> 0, ref |-> ref, before |-> d,
                                              after |-> stored])
    /\ UNCHANGED <<pc, req, cluster, pending, result, calls, clock>>

\* a millisecond passes before the next tool call arrives
Tick ==
    /\ clock < MaxClock
    /\ \E h \in Handlers : pc[h] = "idle"
    /\ clock' = clock + 1
    /\ UNCHANGED <<pc, req, cluster, pending, result, calls, store, writes>>

----------------------------------------------------------------------------
(* The stored documents the model starts from *)

Annotated(name, annotations) ==
    [name |-> name, namespace |-> "db", resourceVersion |-> 1, annotations |-> annotations]

MetadataChoices(name) ==
    {[name |-> name, namespace |-> "db", resourceVersion |-> 1],
     Annotated(name, <<>>),
     Annotated(name, [x \in {HIBERNATION} |-> "on"]),
     Annotated(name, [x \in {HIBERNATION, "team"} |-> IF x = "team" THEN "dba" ELSE "off"]),
     Annotated(name, [x \in {HIBERNATION, SWITCHOVER} |-> ""])}

SpecChoices ==
    {[instances |-> 3],
     [instances |-> 3, postgresql |-> <<>>, futureField |-> "kept"],
     [instances |-> 1,
      imageName |-> "postgres:15",
      postgresql |-> [parameters |-> [max_connections |-> "100", work_mem |-> "4MB"]],
      bootstrap |-> [initdb |-> [database |-> "app",
                                 postInitApplicationSQL |-> <<"SELECT 1;">>]],
      tablespaces |-> <<[name |-> "ts0", storage |-> [size |-> "1Gi"]]>>,
      storage |-> [size |-> "10Gi"]]}

\* a Cluster document: with or without a spec, with or without a status and a key
\* the program does not know
ClusterDocs(name) ==
    LET bare == {[apiVersion |-> ApiVersion, kind |-> "Cluster", metadata |-> m] :
                    m \in MetadataChoices(name)}
        full == {Put(d, "spec", sp) : d \in bare, sp \in SpecChoices}
        seen == {Put(Put(d, "status", [currentPrimary |-> name \o "-1"]), "x-owner", "ops") :
                    d \in {f \in full : /\ Has(f.metadata, "annotations")
                                         /\ Has(f.metadata.annotations, "team")}}
    IN  bare \cup full \cup seen

BackupDoc(name, clusterName) ==
    [apiVersion |-> ApiVersion, kind |-> "Backup",
     metadata |-> [name |-> name, namespace |-> "db", resourceVersion |-> 1],
     spec |-> [cluster |-> [name |-> clusterName]],
     status |-> [phase |-> "completed"]]

\* the server holds cluster prod (any of the documents above), cluster dev and backup bk1
InitialStores ==
    {[r \in {Ref(CLUSTER_PLURAL, "db", "prod"), Ref(CLUSTER_PLURAL, "db", "dev"),
             Ref(BACKUP_PLURAL, "db", "bk1")} |->
        IF r.name = "prod" THEN d
        ELSE IF r.name = "dev"
        THEN [apiVersion |-> ApiVersion, kind |-> "Cluster",
              metadata |-> [name |-> "dev", namespace |-> "db", resourceVersion |-> 1],
              spec |-> [instances |-> 1]]
        ELSE BackupDoc("bk1", "prod")] : d \in ClusterDocs("prod")}

----------------------------------------------------------------------------
(* The tool calls the model issues *)

Target2 == [clusterName |-> "prod", namespace |-> "db"]

\* every property the tool's inputSchema declares, with a value
SchemaArgs(name) ==
    CASE name \in {"get_cluster", "delete_cluster", "get_cluster_status", "get_cluster_pods"}
           -> [name |-> "prod", namespace |-> "db"]
      [] name = "list_clusters" -> [namespace |-> "db"]
      [] name = "create_cluster"
           -> [name |-> "new", namespace |-> "db", instances |-> MaxInstances,
               storageSize |-> "20Gi", postgresVersion |-> "16", storageClass |-> "fast"]
      [] name = "scale_cluster" -> [name |-> "prod", namespace |-> "db", instances |-> 2]
      [] name = "create_backup" -> Put(Target2, "backupName", "manual")
      [] name \in {"list_backups", "list_scheduled_backups"} -> Target2
      [] name = "restore_cluster"
           -> [newClusterName |-> "new", namespace |-> "db", backupName |-> "bk1",
               instances |-> MaxInstances, storageSize |-> "20Gi", storageClass |-> "fast"]
      [] name \in {"get_backup_details", "delete_backup", "get_backup_status"}
           -> [backupName |-> "bk1", namespace |-> "db"]
      [] name = "create_scheduled_backup"
           -> [name |-> "nightly", namespace |-> "db", clusterName |-> "prod",
               schedule |-> "0 2 * * *", backupRetentionPolicy |-> "7d", suspend |-> TRUE]
      [] name = "get_cluster_logs"
           -> [clusterName |-> "prod", namespace |-> "db", podName |-> "prod-1",
               container |-> "postgres", tailLines |-> 10]
      [] name = "switchover_primary" -> Put(Target2, "targetPrimary", "prod-2")
      [] name = "patch_cluster_config"
           -> Put(Target2, "parameters", [max_connections |-> "200", wal_level |-> "logical"])
      [] name = "create_replica_cluster"
           -> [name |-> "replica", namespace |-> "db", sourceClusterName |-> "prod",
               sourceNamespace |-> "db", instances |-> 2, storageSize |-> "20Gi",
               storageClass |-> "fast"]
      [] name = "create_pooler"
           -> [name |-> "pool", namespace |-> "db", clusterName |-> "prod", instances |-> 2,
               poolMode |-> "transaction", maxClientConn |-> 50, defaultPoolSize |-> 10]
      [] name = "upgrade_postgres_version"
           -> [clusterName |-> "prod", namespace |-> "db", postgresVersion |-> "16",
               imageName |-> "registry.local/postgres:16"]
      [] name = "create_logical_replica"
           -> [name |-> "logical", namespace |-> "db", sourceClusterName |-> "prod",
               sourceNamespace |-> "db", publications |-> <<"pub1">>,
               subscriptions |-> <<"sub1">>]
      [] name = "manage_tablespaces"
           -> [clusterName |-> "prod", namespace |-> "db", tablespaceName |-> "ts1",
               storageClass |-> "fast", size |-> "50Gi"]
      [] name = "create_database_declarative"
           -> [clusterName |-> "prod", namespace |-> "db", databaseName |-> "shop",
               owner |-> "alice", encoding |-> "UTF8", template |-> "template1"]
      [] name = "manage_extensions"
           -> [clusterName |-> "prod", namespace |-> "db",
               extensions |-> <<"pg_trgm", "hstore">>, action |-> "remove"]
      [] name = "set_synchronous_replication"
           -> [clusterName |-> "prod", namespace |-> "db",
               synchronousStandbyNames |-> "ANY 1 (*)", syncReplicas |-> 1]
      [] OTHER -> Target2

\* the inputSchema's required list
Required(name) ==
    CASE name = "list_clusters" -> {}
      [] name \in {"list_backups", "list_scheduled_backups", "get_backup_status"}
           -> {"namespace"}
      [] name \in {"get_cluster", "create_cluster", "delete_cluster", "get_cluster_status",
                   "get_cluster_pods"} -> {"name", "namespace"}
      [] name = "scale_cluster" -> {"name", "namespace", "instances"}
      [] name = "restore_cluster" -> {"newClusterName", "namespace", "backupName"}
      [] name \in {"get_backup_details", "delete_backup"} -> {"backupName", "namespace"}
      [] name = "create_scheduled_backup" -> {"name", "namespace", "clusterName", "schedule"}
      [] name = "patch_cluster_config" -> {"clusterName", "namespace", "parameters"}
      [] name \in {"create_replica_cluster", "create_logical_replica"}
           -> {"name", "namespace", "sourceClusterName"}
      [] name = "create_pooler" -> {"name", "namespace", "clusterName"}
      [] name = "upgrade_postgres_version" -> {"clusterName", "namespace", "postgresVersion"}
      [] name = "manage_tablespaces" -> {"clusterName", "namespace", "tablespaceName"}
      [] name = "create_database_declarative" -> {"clusterName", "namespace", "databaseName"}
      [] name = "manage_extensions" -> {"clusterName", "namespace", "extensions"}
      [] OTHER -> {"clusterName", "namespace"}

\* arguments under the names the method's parameter type declares, where these are
\* not the names of the inputSchema
InterfaceArgs(name) ==
    CASE name = "patch_cluster_config"
           -> {[clusterName |-> "prod", namespace |-> "db",
                postgresqlConfig |-> [max_connections |-> "200", wal_level |-> "logical"],
                resources |-> [requests |-> [cpu |-> "1"]]]}
      [] name = "create_replica_cluster"
           -> {[clusterName |-> "replica", namespace |-> "db", primaryCluster |-> "prod",
                source |-> "prod", instances |-> 2, storageSize |-> "20Gi"]}
      [] name = "create_pooler"
           -> {[poolerName |-> "pool", namespace |-> "db", clusterName |-> "prod",
                instances |-> 2, type |-> "ro", poolMode |-> "transaction",
                pgbouncerConfig |-> [max_client_conn |-> "50"]]}
      [] name = "upgrade_postgres_version"
           -> {[clusterName |-> "prod", namespace |-> "db", postgresVersion |-> "16",
                strategy |-> "rolling"]}
      [] name = "create_logical_replica"
           -> {[clusterName |-> "logical", namespace |-> "db", sourceCluster |-> "prod",
                instances |-> 2, storageSize |-> "20Gi", publicationName |-> "pub1"]}
      [] name = "set_synchronous_replication"
           -> {[clusterName |-> "prod", namespace |-> "db", enabled |-> e,
                syncStandbyNames |-> <<"prod-2", "prod-3">>] : e \in BOOLEAN}
      [] OTHER -> {}

InterfaceRequired(name) ==
    CASE name = "create_replica_cluster"
           -> {"clusterName", "namespace", "primaryCluster", "source"}
      [] name = "create_pooler" -> {"poolerName", "namespace", "clusterName"}
      [] name = "upgrade_postgres_version" -> {"clusterName", "namespace", "postgresVersion"}
      [] name = "create_logical_replica" -> {"clusterName", "namespace", "sourceCluster"}
      [] name = "set_synchronous_replication" -> {"clusterName", "namespace", "enabled"}
      [] OTHER -> {"clusterName", "namespace"}

Without(a, ks) == [k \in DOMAIN a \ ks |-> a[k]]

\* every combination of optional arguments present and absent, and every single
\* required argument absent
Combinations(full, required) ==
    {Without(full, ks) : ks \in SUBSET (DOMAIN full \ required)}
        \cup {Without(full, {k}) : k \in required}

ToolCall(name, a) == [name |-> name, hasArguments |-> TRUE, arguments |-> a]

\* calls that follow the inputSchema or the method's parameter type
DeclaredCalls ==
    UNION {{ToolCall(name, a) : a \in Combinations(SchemaArgs(name), Required(name))} :
              name \in Catalog}
    \cup UNION {{ToolCall(name, a) :
                    a \in UNION {Combinations(full, InterfaceRequired(name)) :
                                    full \in InterfaceArgs(name)}} : name \in Catalog}

\* calls with other values: another replica count, a resource that does not exist,
\* a name that is taken, a falsy value, a key the inputSchema does not declare
OtherCalls ==
    {ToolCall("scale_cluster", Put(SchemaArgs("scale_cluster"), "force", TRUE)),
     ToolCall("get_cluster", Put(SchemaArgs("get_cluster"), "verbose", TRUE)),
     ToolCall("switchover_primary", Put(Target2, "targetPrimary", "")),
     ToolCall("manage_extensions", Put(SchemaArgs("manage_extensions"), "action", "list")),
     ToolCall("manage_extensions", Put(SchemaArgs("manage_extensions"), "action", "install"))}
    \cup
    {ToolCall("scale_cluster", [name |-> c, namespace |-> "db", instances |-> n]) :
        c \in {"prod", "dev", "gone"}, n \in {0, MaxInstances}}
    \cup {ToolCall(name, [clusterName |-> "gone", namespace |-> "db"]) :
             name \in {"pause_cluster", "resume_cluster", "create_backup"}}
    \cup {ToolCall("create_cluster", a) :
             a \in {[name |-> "prod", namespace |-> "db"],
                    [name |-> "new", namespace |-> "db", instances |-> 0],
                    [name |-> "new", namespace |-> "db", storageClass |-> ""]}}
    \cup {ToolCall("create_backup", Put(Target2, "backupName", b)) : b \in {"", "bk1"}}
    \cup {ToolCall("restore_cluster",
                   [newClusterName |-> "new", namespace |-> "db", backupName |-> "none"]),
           ToolCall("restore_cluster",
                    [newClusterName |-> "new", namespace |-> "db", backupName |-> "bk1",
                     instances |-> 0, storageSize |-> ""])}

\* calls without an arguments object, and calls of a tool the server does not have
Requests ==
    DeclaredCalls \cup OtherCalls
    \cup {[name |-> name, hasArguments |-> FALSE, arguments |-> <<>>] :
             name \in Catalog \cup {"drop_cluster"}}
    \cup {ToolCall("drop_cluster", Target2)}

\* the calls two concurrent handlers choose from
ConcurrentRequests ==
    {ToolCall("scale_cluster", [name |-> "prod", namespace |-> "db", instances |-> n]) :
        n \in {0, MaxInstances}}
    \cup {ToolCall("scale_cluster", [name |-> "dev", namespace |-> "db", instances |-> 2])}
    \cup {ToolCall(name, Target2) :
             name \in {"pause_cluster", "resume_cluster", "create_backup"}}
    \cup {ToolCall("manage_tablespaces", Put(Target2, "tablespaceName", "ts1")),
          ToolCall("manage_extensions", Put(Target2, "extensions", <<"pg_trgm">>)),
          ToolCall("create_database_declarative", Put(Target2, "databaseName", "shop"))}

\* the cluster has a spec and no status; its spec has the replica count alone, or
\* (without annotations) tablespaces and bootstrap statements as well
ConcurrentStores ==
    {st \in InitialStores :
        LET d == st[Ref(CLUSTER_PLURAL, "db", "prod")]
        IN  /\ Has(d, "spec") /\ ~Has(d, "status")
            /\ \/ DOMAIN d.spec = {"instances"}
               \/ Has(d.spec, "tablespaces") /\ ~Has(d.metadata, "annotations")}

----------------------------------------------------------------------------
(* The specifications *)

TypeInit ==
    /\ pc = [h \in Handlers |-> "idle"]
    /\ req = [h \in Handlers |-> <<>>]
    /\ cluster = [h \in Handlers |-> <<>>]
    /\ pending = [h \in Handlers |-> <<>>]
    /\ result = [h \in Handlers |-> <<>>]
    /\ calls = [h \in Handlers |-> <<>>]
    /\ writes = <<>>
    /\ clock = 0

Init == TypeInit /\ store \in InitialStores

\* one handler, every tool
Next ==
    \/ \E r \in Requests : CallTool(1, r)
    \/ Get(1)
    \/ PatchCluster(1)
    \/ Replace(1)
    \/ Create(1)
    \/ Read(1)
    \/ ListPods(1)
    \/ \E i \in 1..2 : ReadPodLog(1, i)
    \/ OperatorWrite
    \/ Tick

Spec == Init /\ [][Next]_vars

InitConcurrent == TypeInit /\ store \in ConcurrentStores

\* two handlers whose awaits interleave
NextConcurrent ==
    \/ \E h \in Handlers :
          \/ \E r \in ConcurrentRequests : CallTool(h, r)
          \/ Get(h)
          \/ PatchCluster(h)
          \/ Replace(h)
          \/ Create(h)
    \/ OperatorWrite
    \/ Tick

SpecConcurrent == InitConcurrent /\ [][NextConcurrent]_vars

----------------------------------------------------------------------------
(* What the call log of a handler shows *)

Called(h) == pc[h] # "idle"
Tool(h) == req[h].name
Args(h) == req[h].arguments

\* the handler has made a call with this verb; the first such call
HasCall(h, verb) == \E i \in DOMAIN calls[h] : calls[h][i].verb = verb
TheCall(h, verb) == calls[h][CHOOSE i \in DOMAIN calls[h] : calls[h][i].verb = verb]

\* the document without one key of its spec
SpecWithout(d, k) == Del(d.spec, k)

----------------------------------------------------------------------------
(* C1 *)

\* C1: the replace that scale_cluster(name, namespace, instances = n) issues has a body
\* with spec.instances = n, the same keys as the fetched document, and every key other
\* than spec.instances (metadata, status, the other spec keys, unknown keys) equal to
\* the fetched document's
C1_ScaleFrame ==
    \A h \in Handlers :
        (/\ Called(h) /\ Tool(h) = "scale_cluster" /\ Has(Args(h), "instances")
         /\ HasCall(h, "replace"))
        => LET got == TheCall(h, "get").got
               body == TheCall(h, "replace").body
           IN  /\ Has(got, "spec")
               /\ DOMAIN body = DOMAIN got
               /\ body.spec.instances = Args(h).instances
               /\ SpecWithout(body, "instances") = SpecWithout(got, "instances")
               /\ \A k \in DOMAIN got \ {"spec"} : body[k] = got[k]

\* a scale to another count of a document with status, an unknown key and other spec keys
C1_Witness ==
    /\ Called(1) /\ Tool(1) = "scale_cluster" /\ HasCall(1, "replace")
    /\ Has(Args(1), "instances")
    /\ LET got == TheCall(1, "get").got
       IN  /\ Has(got, "status") /\ Has(got, "x-owner")
           /\ Has(got.spec, "futureField")
           /\ Has(got.metadata, "annotations")
           /\ got.spec.instances # Args(1).instances
           /\ TheCall(1, "replace").body.spec.instances = MaxInstances

----------------------------------------------------------------------------
(* C2 *)

SameResource(a, b) ==
    /\ a.group = b.group /\ a.version = b.version /\ a.namespace = b.namespace
    /\ a.plural = b.plural /\ a.name = b.name

\* C2: the remote calls of an update-style tool are a get, then a replace of the
\* resource the get addressed, issued only after the get has succeeded, and nothing
\* else; a successful call has made both
C2_GetThenReplace ==
    \A h \in Handlers :
        (Called(h) /\ req[h].hasArguments /\ Tool(h) \in UpdateTools)
        => LET log == calls[h]
           IN  /\ Len(log) <= 2
               /\ Len(log) >= 1
                    => /\ log[1].verb = "get"
                       /\ log[1].group = CNPG_GROUP /\ log[1].version = CNPG_VERSION
                       /\ log[1].plural = CLUSTER_PLURAL
                       /\ log[1].name = Args(h)[NameKey(Tool(h))]
                       /\ log[1].namespace = Args(h).namespace
               /\ Len(log) = 2
                    => /\ log[1].outcome = "ok"
                       /\ log[2].verb = "replace"
                       /\ SameResource(log[1], log[2])
               /\ pc[h] = "done" => Len(log) = 2 /\ log[2].outcome = "ok"
               /\ pc[h] = "replace" => Len(log) = 1 /\ log[1].outcome = "ok"

\* every update-style tool completes with its get and its replace made
C2_Witness ==
    /\ Called(1) /\ Tool(1) = "manage_tablespaces" /\ pc[1] = "done"
    /\ Len(calls[1]) = 2
    /\ calls[1][1].verb = "get" /\ calls[1][2].verb = "replace"
    /\ calls[1][2].name = "prod"

----------------------------------------------------------------------------
(* C3 *)

Wrote(h) == \E i \in DOMAIN writes : writes[i].by = h

Updating(h) == Called(h) /\ req[h].hasArguments /\ Tool(h) \in UpdateTools

\* C3: on a server that refuses a stale version token, the body of every replace
\* carries the version token of the document its handler fetched; a write is accepted
\* only on top of exactly the fetched state; and a handler whose fetched state another
\* writer has replaced writes nothing and ends in failure
C3_NoLostUpdate ==
    /\ \A h \in Handlers :
          (Updating(h) /\ HasCall(h, "replace"))
          => LET got == TheCall(h, "get").got
                 call == TheCall(h, "replace")
             IN  /\ Has(call.body.metadata, "resourceVersion")
                 /\ Version(call.body) = Version(got)
                 /\ call.outcome = "Conflict" => pc[h] = "failed" /\ ~Wrote(h)
                 /\ call.outcome = "ok" => pc[h] = "done" /\ Wrote(h)
    /\ \A i \in DOMAIN writes :
          LET w == writes[i]
          IN  (w.by \in Handlers /\ Updating(w.by))
              => /\ w.before = TheCall(w.by, "get").got
                 /\ \A h \in Handlers \ {w.by} :
                       (/\ Updating(h) /\ HasCall(h, "get")
                        /\ TheCall(h, "get").outcome = "ok"
                        /\ SameResource(TheCall(h, "get"), TheCall(w.by, "get"))
                        /\ Version(TheCall(h, "get").got) = Version(w.before))
                       => /\ ~Wrote(h)
                          /\ HasCall(h, "replace")
                               => /\ TheCall(h, "replace").outcome # "ok"
                                  /\ pc[h] = "failed"

\* two handlers fetched the same state; one wrote, the other met a Conflict and failed
C3_Witness ==
    /\ Updating(1) /\ Updating(2)
    /\ Tool(1) = "scale_cluster" /\ Tool(2) = "pause_cluster"
    /\ HasCall(1, "replace") /\ HasCall(2, "replace")
    /\ TheCall(1, "get").got = TheCall(2, "get").got
    /\ pc[1] = "done" /\ Wrote(1)
    /\ TheCall(2, "replace").outcome = "Conflict" /\ pc[2] = "failed"
    /\ store[Ref(CLUSTER_PLURAL, "db", "prod")].spec.instances = Args(1).instances

----------------------------------------------------------------------------
(* C8 *)

HasHibernation(d) ==
    Has(d.metadata, "annotations") /\ Has(d.metadata.annotations, HIBERNATION)

\* writes i and j are by a pause_cluster and a resume_cluster handler on the same
\* resource, in this order, with no write to that resource between them
PauseThenResume(i, j) ==
    /\ i < j
    /\ writes[i].by \in Handlers /\ writes[j].by \in Handlers
    /\ Tool(writes[i].by) = "pause_cluster" /\ Tool(writes[j].by) = "resume_cluster"
    /\ writes[i].ref = writes[j].ref
    /\ \A k \in (i + 1)..(j - 1) : writes[k].ref # writes[i].ref

\* C8: after pause_cluster then resume_cluster on the same resource with no writer
\* between, the stored document has no cnpg.io/hibernation annotation (so never "on")
C8_PauseThenResume ==
    \A i, j \in DOMAIN writes :
        PauseThenResume(i, j)
        => /\ ~HasHibernation(writes[j].after)
           /\ (\A k \in (j + 1)..Len(writes) : writes[k].ref # writes[j].ref)
                => ~HasHibernation(store[writes[j].ref])

\* both calls succeeded, on a document that had no annotations map or one that
\* already carried the hibernation key
C8_Witness ==
    /\ Len(writes) = 2 /\ PauseThenResume(1, 2)
    /\ pc[writes[1].by] = "done" /\ pc[writes[2].by] = "done"
    /\ ~Has(writes[1].before.metadata, "annotations")
    /\ Has(store[writes[2].ref].metadata, "annotations")

----------------------------------------------------------------------------
(* C4 *)

Returned(h) == pc[h] \in {"done", "failed"}

\* the arguments lack an argument the tool's inputSchema requires
LacksRequired(h) ==
    /\ Called(h) /\ req[h].hasArguments /\ Tool(h) \in Catalog
    /\ Required(Tool(h)) \ DOMAIN Args(h) # {}

\* C4: a call that lacks a required argument of its tool makes no remote call, and
\* returns a failure
C4_MissingArgumentFailsFirst ==
    \A h \in Handlers :
        LacksRequired(h) => Len(calls[h]) = 0 /\ (Returned(h) => pc[h] = "failed")

\* scale_cluster without instances has made its get and its replace and has succeeded
C4_Witness ==
    /\ LacksRequired(1) /\ Tool(1) = "scale_cluster" /\ ~Has(Args(1), "instances")
    /\ pc[1] = "done" /\ HasCall(1, "get") /\ HasCall(1, "replace")
    /\ ~Has(TheCall(1, "replace").body.spec, "instances")

----------------------------------------------------------------------------
(* C5 *)

FailedCall(h) == \E i \in DOMAIN calls[h] : calls[h][i].outcome # "ok"

ReportsFailure(res) == res.content[1].text[1] = "Error executing "

\* C5: a handler that has returned after one of its remote calls failed, or after its
\* patch threw, has returned the failure text and not the tool's success message
C5_FailureNeverEscapes ==
    \A h \in Handlers :
        Returned(h)
        => /\ Len(result[h].content) = 1
           /\ pc[h] = "failed" => ReportsFailure(result[h])
           /\ FailedCall(h) => pc[h] = "failed"

\* get_cluster_logs has returned its success message after a log read failed
C5_Witness ==
    /\ Called(1) /\ Tool(1) = "get_cluster_logs" /\ pc[1] = "done"
    /\ FailedCall(1)
    /\ result[1] = TextResult(LogsText(Args(1), pending[1]))

----------------------------------------------------------------------------
(* C6 *)

\* C6: every returned result carries a success/failure flag, set to failure exactly
\* when the call failed
C6_ResultFlag ==
    \A h \in Handlers :
        Returned(h)
        => /\ Has(result[h], "isError")
           /\ result[h].isError <=> pc[h] = "failed"

\* a call has failed on a Conflict and its result has one key: content
C6_Witness ==
    /\ Returned(1) /\ pc[1] = "failed" /\ FailedCall(1)
    /\ HasCall(1, "replace") /\ TheCall(1, "replace").outcome = "Conflict"
    /\ DOMAIN result[1] = {"content"}

----------------------------------------------------------------------------
(* C7 *)

\* a result with the wording of its text left out
Structure(res) ==
    [k \in DOMAIN res |->
        IF k = "content" THEN [i \in DOMAIN res.content |-> Del(res.content[i], "text")]
        ELSE res[k]]

\* what the handler returns when the replace of this tool fails on the transport
TransportFailureResult(h) ==
    ErrorResult(Tool(h), CallFailed(Tool(h), Params(Tool(h), Args(h)),
                                    [verb |-> "replace", outcome |-> "Transport"]))

MetConflict(h) ==
    Updating(h) /\ HasCall(h, "replace") /\ TheCall(h, "replace").outcome = "Conflict"

\* C7: the result of a replace refused with a Conflict differs in structure from the
\* result of the same replace failing on the transport
C7_ConflictDistinct ==
    \A h \in Handlers :
        MetConflict(h) => Structure(result[h]) # Structure(TransportFailureResult(h))

\* a Conflict has been returned; its text alone differs from a transport failure's
C7_Witness ==
    /\ MetConflict(1) /\ pc[1] = "failed"
    /\ result[1] # TransportFailureResult(1)
    /\ Structure(result[1]) = Structure(TransportFailureResult(1))

----------------------------------------------------------------------------
(* C9 *)

\* the handler has compiled a Backup document under a name of its own making
Generated(h) ==
    /\ Called(h) /\ req[h].hasArguments /\ Tool(h) = "create_backup"
    /\ ~TruthyStr(Args(h), "backupName")
    /\ Has(cluster[h], "metadata")

\* C9: a generated backup name starts with <clusterName>-backup-, and two create_backup
\* calls for the same cluster and namespace in the same millisecond generate two names
C9_GeneratedNames ==
    /\ \A h \in Handlers :
          Generated(h)
          => \E n \in 0..MaxClock :
                cluster[h].metadata.name = Args(h).clusterName \o "-backup-" \o ToString(n)
    /\ \A h1, h2 \in Handlers :
          (/\ h1 # h2 /\ Generated(h1) /\ Generated(h2)
           /\ Args(h1) = Args(h2) /\ req[h1].at = req[h2].at)
          => cluster[h1].metadata.name # cluster[h2].metadata.name

\* two calls in one millisecond compiled the same name; the second create was refused
C9_Witness ==
    /\ Generated(1) /\ Generated(2) /\ Args(1) = Args(2) /\ req[1].at = req[2].at
    /\ cluster[1].metadata.name = cluster[2].metadata.name
    /\ pc[1] = "done" /\ pc[2] = "failed"
    /\ TheCall(2, "create").outcome = "AlreadyExists"

----------------------------------------------------------------------------
(* C10 *)

Field(arg, path) == [arg |-> arg, path |-> path]

\* the optional arguments of each create-style tool, each with the field of the
\* compiled document that its value goes to
OptionalFields(name) ==
    CASE name \in {"create_cluster", "restore_cluster"}
           -> {Field("instances", <<"spec", "instances">>),
               Field("storageSize", <<"spec", "storage", "size">>),
               Field("storageClass", <<"spec", "storage", "storageClass">>)}
      [] name = "create_scheduled_backup"
           -> {Field("backupRetentionPolicy", <<"spec", "retentionPolicy">>),
               Field("suspend", <<"spec", "suspend">>)}
      [] name = "create_replica_cluster"
           -> {Field("instances", <<"spec", "instances">>),
               Field("storageSize", <<"spec", "storage", "size">>)}
      [] name = "create_pooler"
           -> {Field("instances", <<"spec", "instances">>),
               Field("type", <<"spec", "type">>),
               Field("poolMode", <<"spec", "pgbouncer", "poolMode">>),
               Field("pgbouncerConfig", <<"spec", "pgbouncer", "parameters">>)}
      [] name = "create_logical_replica"
           -> {Field("instances", <<"spec", "instances">>),
               Field("storageSize", <<"spec", "storage", "size">>),
               Field("publicationName", <<"spec", "replica", "publicationName">>)}
      [] OTHER -> {}

RECURSIVE HasPath(_, _)
HasPath(d, path) ==
    \/ Len(path) = 0
    \/ Has(d, Head(path)) /\ HasPath(d[Head(path)], Tail(path))

Creating(h) ==
    /\ Called(h) /\ req[h].hasArguments
    /\ Tool(h) \in CreateTools \cup {"restore_cluster"}
    /\ HasCall(h, "create")

\* C10: the document a create-style tool submits has no field for an optional argument
\* that was not supplied
C10_AbsentOptionalOmitted ==
    \A h \in Handlers :
        Creating(h)
        => \A f \in OptionalFields(Tool(h)) :
              ~Has(Args(h), f.arg) => ~HasPath(TheCall(h, "create").body, f.path)

\* create_pooler without pgbouncerConfig has submitted spec.pgbouncer.parameters = {}
C10_Witness ==
    /\ Creating(1) /\ Tool(1) = "create_pooler" /\ pc[1] = "done"
    /\ DOMAIN Args(1) = {"poolerName", "namespace", "clusterName", "instances", "type",
                         "poolMode"}
    /\ DOMAIN TheCall(1, "create").body.spec.pgbouncer.parameters = {}

----------------------------------------------------------------------------
(* C11 *)

\* resume_cluster has issued its replace for a document fetched without annotations
ResumedBare(h) ==
    /\ Updating(h) /\ Tool(h) = "resume_cluster" /\ HasCall(h, "replace")
    /\ ~Has(TheCall(h, "get").got.metadata, "annotations")

\* C11: resume_cluster on a fetched document without metadata.annotations issues a
\* replace whose body has metadata.annotations present and empty
C11_ResumeCreatesAnnotations ==
    \A h \in Handlers :
        ResumedBare(h)
        => LET body == TheCall(h, "replace").body
           IN  /\ Has(body.metadata, "annotations")
               /\ DOMAIN body.metadata.annotations = {}

\* the call succeeded and its body has no metadata.annotations at all
C11_Witness ==
    /\ ResumedBare(1) /\ pc[1] = "done"
    /\ ~Has(TheCall(1, "replace").body.metadata, "annotations")
    /\ TheCall(1, "replace").body = TheCall(1, "get").got

----------------------------------------------------------------------------
(* C12 *)

\* writes i and j are by handlers of tools t1 and t2 on the same resource, in this
\* order, with no write to that resource between them
Successive(i, j, t1, t2) ==
    /\ i < j
    /\ writes[i].by \in Handlers /\ writes[j].by \in Handlers
    /\ Tool(writes[i].by) = t1 /\ Tool(writes[j].by) = t2
    /\ writes[i].ref = writes[j].ref
    /\ \A k \in (i + 1)..(j - 1) : writes[k].ref # writes[i].ref

----------------------------------------------------------------------------
(* C13 *)

\* the array at a path of a document, empty when the path is absent
ArrayAt(d, path) ==
    IF ~HasPath(d, path) THEN <<>>
    ELSE IF Len(path) = 2 THEN d[path[1]][path[2]]
    ELSE d[path[1]][path[2]][path[3]][path[4]]

\* new is old followed by two equal entries
TwiceAppended(old, new) ==
    /\ Len(new) = Len(old) + 2
    /\ SubSeq(new, 1, Len(old)) = old
    /\ new[Len(old) + 1] = new[Len(old) + 2]

\* C13: two calls of an appending tool with the same arguments, one after the other
\* with no writer between, leave the array with its previous entries followed by two
\* equal entries: spec.tablespaces for manage_tablespaces, and
\* spec.bootstrap.initdb.postInitApplicationSQL for manage_extensions and
\* create_database_declarative
C13_AppendTwice ==
    \A i, j \in DOMAIN writes :
        \A t \in {"manage_tablespaces", "manage_extensions", "create_database_declarative"} :
            (Successive(i, j, t, t) /\ Args(writes[i].by) = Args(writes[j].by))
            => LET path == IF t = "manage_tablespaces" THEN <<"spec", "tablespaces">>
                           ELSE <<"spec", "bootstrap", "initdb", "postInitApplicationSQL">>
                   new == ArrayAt(writes[j].after, path)
               IN  /\ TwiceAppended(ArrayAt(writes[i].before, path), new)
                   /\ t = "manage_tablespaces"
                        => new[Len(new)].name = Args(writes[j].by).tablespaceName
                   /\ t = "manage_extensions"
                        => new[Len(new)] = "CREATE EXTENSION IF NOT EXISTS pg_trgm;"
                   /\ t = "create_database_declarative"
                        => new[Len(new)] = "CREATE DATABASE \"shop\""

\* two successful manage_tablespaces calls on a cluster without tablespaces
C13_Witness ==
    /\ Len(writes) = 2 /\ Successive(1, 2, "manage_tablespaces", "manage_tablespaces")
    /\ pc[1] = "done" /\ pc[2] = "done"
    /\ ~Has(writes[1].before.spec, "tablespaces")
    /\ Len(store[writes[2].ref].spec.tablespaces) = 2
    /\ store[writes[2].ref].spec.tablespaces[1] = store[writes[2].ref].spec.tablespaces[2]

----------------------------------------------------------------------------
(* C14 *)

\* C14: patch_cluster_config called with the schema's parameters = P replaces the cluster
\* with spec.postgresql.parameters equal to the fetched map merged with P, and with
\* every other field as fetched
C14_SchemaParametersMerged ==
    \A h \in Handlers :
        (/\ Called(h) /\ req[h].hasArguments /\ Tool(h) = "patch_cluster_config"
         /\ Has(Args(h), "parameters") /\ HasCall(h, "replace"))
        => LET got == TheCall(h, "get").got
               body == TheCall(h, "replace").body
               path == <<"spec", "postgresql", "parameters">>
               old == IF HasPath(got, path) THEN got.spec.postgresql.parameters ELSE <<>>
           IN  /\ HasPath(body, path)
               /\ body.spec.postgresql.parameters = Assign(old, Args(h).parameters)
               /\ Has(got, "spec")
               /\ SetParameters(body.spec, <<>>) = SetParameters(WithParameters(got.spec), <<>>)
               /\ Without(body, {"spec"}) = Without(got, {"spec"})

\* the call has succeeded, and the cluster was replaced by the fetched document, whose
\* parameters lack the keys of P
C14_Witness ==
    /\ Updating(1) /\ Tool(1) = "patch_cluster_config" /\ pc[1] = "done"
    /\ DOMAIN Args(1) = {"clusterName", "namespace", "parameters"}
    /\ TheCall(1, "replace").body = TheCall(1, "get").got
    /\ HasPath(TheCall(1, "get").got, <<"spec", "postgresql", "parameters">>)
    /\ ~Has(TheCall(1, "get").got.spec.postgresql.parameters, "wal_level")

----------------------------------------------------------------------------
(* C15 *)

\* C15: no replace call of an update-style tool carries a status key in its body
C15_NoStatusInReplace ==
    \A h \in Handlers : \A i \in DOMAIN calls[h] :
        calls[h][i].verb = "replace" => ~Has(calls[h][i].body, "status")

\* scale_cluster has replaced a cluster that the operator has given a status, and the
\* body carried the status as it was fetched
C15_Witness ==
    /\ Updating(1) /\ Tool(1) = "scale_cluster" /\ pc[1] = "done"
    /\ Has(TheCall(1, "get").got, "status")
    /\ Has(TheCall(1, "replace").body, "status")
    /\ TheCall(1, "replace").body.status = TheCall(1, "get").got.status

----------------------------------------------------------------------------
(* C16 *)

\* how far an update-style call has come: validated, fetched, patched, returned
Rank(at) ==
    CASE at = "idle" -> 0
      [] at = "get" -> 1
      [] at = "fetched" -> 2
      [] at = "replace" -> 3
      [] OTHER -> 4

\* the remote calls of one handler: at most one get, at most one replace, the replace
\* only after a get that succeeded, and nothing after a call that failed
CallsOnce(log) ==
    /\ Cardinality({i \in DOMAIN log : log[i].verb = "get"}) <= 1
    /\ Cardinality({i \in DOMAIN log : log[i].verb = "replace"}) <= 1
    /\ \A i \in DOMAIN log :
          /\ log[i].verb \in {"get", "replace"}
          /\ log[i].verb = "replace"
             => \E j \in 1..(i - 1) : log[j].verb = "get" /\ log[j].outcome = "ok"
          /\ log[i].outcome # "ok" => i = Len(log)

\* C16: an update-style call moves only forward through validated, fetched, patched,
\* submitted and done, or into failed; done and failed are final; it issues at most one
\* get and one replace, no replace after a failed get, and no call after a failed call
C16_ForwardOnly ==
    [][\A h \in Handlers :
          Updating(h)'
          => /\ Rank(pc'[h]) >= Rank(pc[h])
             /\ pc[h] \in {"done", "failed"}
                => pc'[h] = pc[h] /\ calls'[h] = calls[h] /\ result'[h] = result[h]
             /\ pc'[h] \in {"get", "fetched", "replace", "done", "failed"}
             /\ CallsOnce(calls'[h])
             /\ pc'[h] = "failed" /\ pc[h] # "failed" => Len(calls'[h]) <= Len(calls[h]) + 1
             /\ Len(calls'[h]) >= Len(calls[h])]_vars

\* an update has failed at its replace, after a get that succeeded, and has made no
\* other call
C16_Witness ==
    /\ Updating(1) /\ pc[1] = "failed" /\ Len(calls[1]) = 2
    /\ calls[1][1].verb = "get" /\ calls[1][1].outcome = "ok"
    /\ calls[1][2].verb = "replace" /\ calls[1][2].outcome = "Conflict"

----------------------------------------------------------------------------
(* C17 *)

\* the call has an argument that the tool's inputSchema does not declare
HasUnknownKey(h) ==
    /\ Called(h) /\ req[h].hasArguments /\ Tool(h) \in Catalog
    /\ DOMAIN Args(h) \ DOMAIN SchemaArgs(Tool(h)) # {}

\* C17: a call with an argument that is not in the declared parameter set of its tool
\* makes no remote call and returns a failure
C17_UnknownKeyRejected ==
    \A h \in Handlers :
        HasUnknownKey(h) => Len(calls[h]) = 0 /\ (Returned(h) => pc[h] = "failed")

\* scale_cluster with the undeclared argument force has replaced the cluster and
\* returned success
C17_Witness ==
    /\ HasUnknownKey(1) /\ Tool(1) = "scale_cluster" /\ Has(Args(1), "force")
    /\ pc[1] = "done" /\ TheCall(1, "replace").outcome = "ok"
    /\ store[Ref(CLUSTER_PLURAL, "db", "prod")].spec.instances = 2

----------------------------------------------------------------------------
(* C18 *)

\* the argument that names the new resource in the tool's inputSchema
SchemaNameKey(name) == IF name = "restore_cluster" THEN "newClusterName" ELSE "name"

\* the call's arguments are declared by the inputSchema and include the required ones
SchemaConformant(h) ==
    /\ DOMAIN Args(h) \subseteq DOMAIN SchemaArgs(Tool(h))
    /\ Required(Tool(h)) \subseteq DOMAIN Args(h)

\* C18: the document a create-style tool compiles from schema-conformant arguments has
\* metadata.name equal to the schema's name argument and metadata.namespace equal to
\* the namespace argument
C18_NamedBySchemaName ==
    \A h \in Handlers :
        (Creating(h) /\ Tool(h) # "create_backup" /\ SchemaConformant(h))
        => LET metadata == TheCall(h, "create").body.metadata
           IN  /\ Has(metadata, "name") /\ Has(metadata, "namespace")
               /\ metadata.name = Args(h)[SchemaNameKey(Tool(h))]
               /\ metadata.namespace = Args(h).namespace

\* create_pooler with the arguments of its inputSchema has submitted a Pooler that has
\* no name
C18_Witness ==
    /\ Creating(1) /\ Tool(1) = "create_pooler" /\ SchemaConformant(1)
    /\ Args(1).name = "pool"
    /\ ~Has(TheCall(1, "create").body.metadata, "name")
    /\ TheCall(1, "create").body.metadata.namespace = "db"
    /\ pc[1] = "failed"

----------------------------------------------------------------------------
(* C19 *)

\* C19: create_cluster and restore_cluster give spec.instances the supplied instances,
\* or 3 when none is supplied, and spec.storage.size the supplied storageSize, or "10Gi"
\* when none is supplied; a supplied 0 is kept
C19_DefaultsOnlyWhenAbsent ==
    \A h \in Handlers :
        (Creating(h) /\ Tool(h) \in {"create_cluster", "restore_cluster"})
        => LET spec == TheCall(h, "create").body.spec
           IN  /\ spec.instances = IF Has(Args(h), "instances") THEN Args(h).instances ELSE 3
               /\ spec.storage.size
                    = IF Has(Args(h), "storageSize") THEN Args(h).storageSize ELSE "10Gi"

\* create_cluster with instances = 0 and no storageSize has submitted a cluster with
\* 0 instances and 10Gi of storage
C19_Witness ==
    /\ Creating(1) /\ Tool(1) = "create_cluster"
    /\ Has(Args(1), "instances") /\ Args(1).instances = 0 /\ ~Has(Args(1), "storageSize")
    /\ TheCall(1, "create").body.spec.instances = 0
    /\ TheCall(1, "create").body.spec.storage.size = "10Gi"

----------------------------------------------------------------------------
(* C20 *)

\* C20: the body of every replace has the metadata.name and metadata.namespace of the
\* document that was fetched, whatever the arguments are
C20_IdentityKept ==
    \A h \in Handlers : \A i \in DOMAIN calls[h] :
        calls[h][i].verb = "replace"
        => LET fetched == TheCall(h, "get").got.metadata
               sent == calls[h][i].body.metadata
           IN  /\ Has(sent, "name") /\ Has(sent, "namespace")
               /\ sent.name = fetched.name
               /\ sent.namespace = fetched.namespace

\* pause_cluster has replaced a cluster whose metadata it has changed, under the name
\* and namespace it fetched
C20_Witness ==
    /\ Updating(1) /\ Tool(1) = "pause_cluster" /\ pc[1] = "done"
    /\ TheCall(1, "replace").body.metadata # TheCall(1, "get").got.metadata
    /\ TheCall(1, "replace").body.metadata.name = "prod"
    /\ TheCall(1, "replace").body.metadata.namespace = "db"

----------------------------------------------------------------------------
(* C21 *)

\* the resource a tool call reads and writes: the cluster of an update-style tool, the
\* backup that create_backup creates
Addressed(h) ==
    IF Tool(h) \in UpdateTools THEN Target(Tool(h), Params(Tool(h), Args(h)))
    ELSE Ref(Plural(Tool(h)), Args(h).namespace, cluster[h].metadata.name)

\* the document the server held at ref before the first tool call, as a sequence of
\* one document, or of none when it held none
Before(ref) ==
    LET ws == {i \in DOMAIN writes : writes[i].ref = ref}
    IN  IF ws = {}
        THEN IF ref \in DOMAIN store THEN <<store[ref]>> ELSE <<>>
        ELSE LET first == writes[CHOOSE i \in ws : \A j \in ws : i <= j]
             IN  IF Has(first, "before") THEN <<first.before>> ELSE <<>>

\* the calls, the result and the stored document of handler h are those of the tool
\* call running by itself on the server's first state, with the transport failing where
\* it failed for h
RanAlone(h) ==
    LET name == Tool(h)
        p == Params(name, Args(h))
        ref == Addressed(h)
        was == Before(ref)
        log == calls[h]
        now == IF ref \in DOMAIN store THEN <<store[ref]>> ELSE <<>>
    IN  IF name \in UpdateTools
        THEN /\ Len(log) >= 1 /\ log[1].verb = "get"
             /\ log[1].outcome \in {IF was # <<>> THEN "ok" ELSE "NotFound"}
                                      \cup TransportFailures
             /\ IF log[1].outcome # "ok"
                THEN /\ Len(log) = 1 /\ now = was
                     /\ result[h] = ErrorResult(name, CallFailed(name, p, log[1]))
                ELSE LET patched == Patch(name, was[1], p)
                     IN  /\ log[1].got = was[1]
                         /\ IF patched.threw
                            THEN /\ Len(log) = 1 /\ now = was
                                 /\ result[h] = ErrorResult(name, Failed(name, patched.message))
                            ELSE /\ Len(log) = 2 /\ log[2].verb = "replace"
                                 /\ log[2].body = patched.value
                                 /\ log[2].outcome \in {"ok"} \cup TransportFailures
                                 /\ now = IF log[2].outcome \in {"ok", "Timeout"}
                                          THEN <<WithVersion(patched.value, Version(was[1]) + 1)>>
                                          ELSE was
                                 /\ result[h]
                                      = IF log[2].outcome = "ok"
                                        THEN TextResult(SuccessText(name, p, patched.value))
                                        ELSE ErrorResult(name, CallFailed(name, p, log[2]))
        ELSE LET body == Compile(name, p, req[h].at)
             IN  /\ Len(log) = 1 /\ log[1].verb = "create" /\ log[1].body = body
                 /\ log[1].outcome \in {IF was = <<>> THEN "ok" ELSE "AlreadyExists"}
                                          \cup TransportFailures
                 /\ now = IF was = <<>> /\ log[1].outcome \in {"ok", "Timeout"}
                          THEN <<WithVersion(body, 1)>> ELSE was
                 /\ result[h] = IF log[1].outcome = "ok"
                                THEN TextResult(SuccessText(name, p, body))
                                ELSE ErrorResult(name, CallFailed(name, p, log[1]))

\* C21: when two tool calls on different resources have run concurrently (and nobody
\* else has written), each has made the calls, returned the result and left the
\* document that it makes, returns and leaves when it runs by itself, and has written
\* its own resource only; so every interleaving ends as either sequential order does
C21_ConcurrentAsSequential ==
    (/\ Returned(1) /\ Returned(2) /\ OperatorWrites = 0
     /\ Addressed(1) # Addressed(2))
    => /\ RanAlone(1) /\ RanAlone(2)
       /\ \A i \in DOMAIN writes : writes[i].ref = Addressed(writes[i].by)

\* pause_cluster on prod and scale_cluster on dev have overlapped: the scale arrived
\* second and wrote first, and both have succeeded
C21_Witness ==
    /\ Returned(1) /\ Returned(2) /\ OperatorWrites = 0
    /\ Tool(1) = "pause_cluster" /\ Tool(2) = "scale_cluster" /\ Args(2).name = "dev"
    /\ Addressed(1) # Addressed(2)
    /\ pc[1] = "done" /\ pc[2] = "done"
    /\ Len(writes) = 2 /\ writes[1].by = 2 /\ writes[2].by = 1

----------------------------------------------------------------------------
(* C22 *)

\* the annotation that pause_cluster and switchover_primary set, and its value; a
\* targetPrimary that is the empty text counts as not given
AnnotationSet(h) ==
    IF Tool(h) = "pause_cluster" THEN [key |-> HIBERNATION, value |-> "on"]
    ELSE [key |-> SWITCHOVER,
          value |-> IF TruthyStr(Args(h), "targetPrimary")
                    THEN "{\"switchoverTo\":\"" \o Args(h).targetPrimary \o "\"}"
                    ELSE "{\"switchoverTo\":\"any\"}"]

\* C22: the replace body of pause_cluster and of switchover_primary has the one
\* annotation set (in a map that is created when the fetched document has none), every
\* other annotation as fetched, and every field outside metadata.annotations as fetched
C22_OneAnnotationSet ==
    \A h \in Handlers :
        (Updating(h) /\ Tool(h) \in {"pause_cluster", "switchover_primary"}
         /\ HasCall(h, "replace"))
        => LET got == TheCall(h, "get").got
               body == TheCall(h, "replace").body
               set == AnnotationSet(h)
               old == IF Has(got.metadata, "annotations") THEN got.metadata.annotations
                      ELSE <<>>
           IN  /\ Has(body.metadata, "annotations")
               /\ Has(body.metadata.annotations, set.key)
               /\ body.metadata.annotations[set.key] = set.value
               /\ Without(body.metadata.annotations, {set.key}) = Without(old, {set.key})
               /\ Without(body.metadata, {"annotations"}) = Without(got.metadata, {"annotations"})
               /\ Without(body, {"metadata"}) = Without(got, {"metadata"})

\* switchover_primary to prod-2 has replaced a cluster that had other annotations, a
\* status and a spec
C22_Witness ==
    /\ Updating(1) /\ Tool(1) = "switchover_primary" /\ pc[1] = "done"
    /\ Has(Args(1), "targetPrimary") /\ Args(1).targetPrimary = "prod-2"
    /\ Has(TheCall(1, "get").got.metadata, "annotations")
    /\ DOMAIN TheCall(1, "get").got.metadata.annotations = {HIBERNATION, "team"}
    /\ DOMAIN TheCall(1, "replace").body.metadata.annotations
         = {HIBERNATION, "team", SWITCHOVER}
    /\ Has(TheCall(1, "replace").body, "status")

----------------------------------------------------------------------------
(* C23 *)

\* the update-style tools that write under spec
SpecTools == UpdateTools \ {"switchover_primary", "pause_cluster", "resume_cluster"}

\* C23: an update-style tool that writes under spec, having fetched a document that has
\* no spec, issues no replace and ends in failure
C23_NoSpecFails ==
    \A h \in Handlers :
        (/\ Updating(h) /\ Tool(h) \in SpecTools
         /\ HasCall(h, "get") /\ TheCall(h, "get").outcome = "ok"
         /\ ~Has(TheCall(h, "get").got, "spec"))
        => /\ ~HasCall(h, "replace")
           /\ pc[h] \notin {"replace", "done"}

\* patch_cluster_config with the arguments of its inputSchema has fetched a cluster
\* without a spec, replaced it by the same document, and returned success
C23_Witness ==
    /\ Updating(1) /\ Tool(1) = "patch_cluster_config" /\ pc[1] = "done"
    /\ DOMAIN Args(1) = {"clusterName", "namespace", "parameters"}
    /\ ~Has(TheCall(1, "get").got, "spec")
    /\ TheCall(1, "replace").body = TheCall(1, "get").got
    /\ TheCall(1, "replace").outcome = "ok"
    /\ ~Has(store[Ref(CLUSTER_PLURAL, "db", "prod")], "spec")

----------------------------------------------------------------------------
(* C24 *)

\* C24: restore_cluster issues its create only after its get of the backup backupName in
\* the namespace has succeeded; when that get has failed there is no create, and the
\* result is a failure whose text names the backup and the namespace
C24_RestoreChecksBackup ==
    \A h \in Handlers :
        (/\ Called(h) /\ req[h].hasArguments /\ Tool(h) = "restore_cluster"
         /\ Has(Args(h), "backupName") /\ Has(Args(h), "namespace"))
        => /\ \A i \in DOMAIN calls[h] :
                 calls[h][i].verb = "create"
                 => /\ i = 2
                    /\ calls[h][1] = Call("get",
                                          Ref(BACKUP_PLURAL, Args(h).namespace, Args(h).backupName),
                                          "ok")
                                     @@ [got |-> calls[h][1].got]
                    /\ calls[h][i].namespace = Args(h).namespace
           /\ (Len(calls[h]) >= 1 /\ calls[h][1].outcome # "ok")
              => /\ calls[h][1].verb = "get" /\ Len(calls[h]) = 1
                 /\ pc[h] = "failed"
                 /\ result[h].content[1].text
                      = <<"Error executing ", "restore_cluster", ": ",
                          "Backup '" \o Args(h).backupName \o "' not found in namespace '"
                             \o Args(h).namespace \o "': "
                             \o ErrorMessage(calls[h][1].outcome)>>

\* restore_cluster from a backup that does not exist has failed after its get, with the
\* text that names the backup and the namespace
C24_Witness ==
    /\ Called(1) /\ req[1].hasArguments /\ Tool(1) = "restore_cluster"
    /\ Has(Args(1), "backupName") /\ Args(1).backupName = "none"
    /\ pc[1] = "failed" /\ Len(calls[1]) = 1
    /\ calls[1][1].verb = "get" /\ calls[1][1].outcome = "NotFound"
    /\ calls[1][1].plural = BACKUP_PLURAL /\ calls[1][1].name = "none"
    /\ result[1].content[1].text[4]
         = "Backup 'none' not found in namespace 'db': HTTP-Code: 404 Message: Not Found"

----------------------------------------------------------------------------
(* C25 *)

\* C25: a call of a tool that the server does not have makes no remote call and ends in
\* a failure whose text names that tool
C25_UnknownToolFails ==
    \A h \in Handlers :
        (Called(h) /\ Tool(h) \notin Catalog)
        => /\ Len(calls[h]) = 0
           /\ pc[h] = "failed"
           /\ LET text == result[h].content[1].text
              IN  /\ Len(text) = 4
                  /\ text[2] = Tool(h)
                  /\ req[h].hasArguments => text[4] = "Unknown tool: " \o Tool(h)

\* drop_cluster, called with arguments, has failed with "Unknown tool: drop_cluster"
C25_Witness ==
    /\ Called(1) /\ req[1].hasArguments /\ Tool(1) = "drop_cluster"
    /\ pc[1] = "failed" /\ Len(calls[1]) = 0
    /\ result[1] = TextResult(<<"Error executing ", "drop_cluster", ": ",
                                "Unknown tool: drop_cluster">>)

----------------------------------------------------------------------------
(* C26 *)

\* C26: get_backup_status issues its get against the backup whose namespace is the
\* namespace argument and whose name is the backupName argument
C26_BackupStatusTarget ==
    \A h \in Handlers :
        (/\ Called(h) /\ req[h].hasArguments /\ Tool(h) = "get_backup_status"
         /\ Has(Args(h), "namespace") /\ Has(Args(h), "backupName")
         /\ HasCall(h, "get"))
        => /\ TheCall(h, "get").plural = BACKUP_PLURAL
           /\ TheCall(h, "get").namespace = Args(h).namespace
           /\ TheCall(h, "get").name = Args(h).backupName

\* get_backup_status of backup bk1 in namespace db has asked for the backup db in the
\* namespace bk1, and has failed with Not Found although bk1 exists
C26_Witness ==
    /\ Called(1) /\ req[1].hasArguments /\ Tool(1) = "get_backup_status"
    /\ Args(1) = [backupName |-> "bk1", namespace |-> "db"]
    /\ Ref(BACKUP_PLURAL, "db", "bk1") \in DOMAIN store
    /\ Len(calls[1]) = 1 /\ calls[1][1].verb = "get"
    /\ calls[1][1].namespace = "bk1" /\ calls[1][1].name = "db"
    /\ calls[1][1].outcome = "NotFound" /\ pc[1] = "failed"

----------------------------------------------------------------------------
(* C27 *)

\* C27: the replace body of upgrade_postgres_version has spec.imageName equal to the
\* imageName argument when one is supplied and to the image of postgresVersion
\* otherwise, spec.postgresql.upgradeStrategy equal to the strategy when one is
\* supplied, and every other field as fetched
C27_UpgradeImage ==
    \A h \in Handlers :
        (Updating(h) /\ Tool(h) = "upgrade_postgres_version" /\ HasCall(h, "replace"))
        => LET got == TheCall(h, "get").got
               body == TheCall(h, "replace").body
               a == Args(h)
               pg(s) == IF Has(s, "postgresql") THEN s.postgresql ELSE <<>>
           IN  /\ Has(body, "spec") /\ Has(got, "spec")
               /\ Has(body.spec, "imageName")
               /\ body.spec.imageName = IF TruthyStr(a, "imageName") THEN a.imageName
                                        ELSE "postgres:" \o Str(a, "postgresVersion")
               /\ TruthyStr(a, "strategy")
                  => /\ Has(pg(body.spec), "upgradeStrategy")
                     /\ body.spec.postgresql.upgradeStrategy = a.strategy
               /\ Without(pg(body.spec), {"upgradeStrategy"})
                    = Without(pg(got.spec), {"upgradeStrategy"})
               /\ ~TruthyStr(a, "strategy") => pg(body.spec) = pg(got.spec)
               /\ Without(body.spec, {"imageName", "postgresql"})
                    = Without(got.spec, {"imageName", "postgresql"})
               /\ Without(body, {"spec"}) = Without(got, {"spec"})

\* upgrade_postgres_version with imageName = registry.local/postgres:16 has replaced the
\* cluster with spec.imageName = postgres:16
C27_Witness ==
    /\ Updating(1) /\ Tool(1) = "upgrade_postgres_version" /\ pc[1] = "done"
    /\ Has(Args(1), "imageName") /\ Args(1).imageName = "registry.local/postgres:16"
    /\ TheCall(1, "replace").body.spec.imageName = "postgres:16"
    /\ store[Ref(CLUSTER_PLURAL, "db", "prod")].spec.imageName = "postgres:16"

----------------------------------------------------------------------------
(* C28 *)

\* C28: manage_extensions appends its CREATE EXTENSION statements only when action is
\* install (or absent), and issues no replace when action is list
C28_ActionObeyed ==
    \A h \in Handlers :
        (Updating(h) /\ Tool(h) = "manage_extensions" /\ Has(Args(h), "action"))
        => LET sql == <<"spec", "bootstrap", "initdb", "postInitApplicationSQL">>
           IN  /\ Args(h).action = "list" => ~HasCall(h, "replace")
               /\ (Args(h).action # "install" /\ HasCall(h, "replace"))
                  => ArrayAt(TheCall(h, "replace").body, sql)
                       = ArrayAt(TheCall(h, "get").got, sql)

\* manage_extensions with action = list has replaced the cluster, with two CREATE
\* EXTENSION statements appended
C28_Witness ==
    /\ Updating(1) /\ Tool(1) = "manage_extensions" /\ pc[1] = "done"
    /\ Has(Args(1), "action") /\ Args(1).action = "list"
    /\ Args(1).extensions = <<"pg_trgm", "hstore">>
    /\ LET sql == <<"spec", "bootstrap", "initdb", "postInitApplicationSQL">>
           old == ArrayAt(TheCall(1, "get").got, sql)
       IN  ArrayAt(store[Ref(CLUSTER_PLURAL, "db", "prod")], sql)
             = old \o <<"CREATE EXTENSION IF NOT EXISTS pg_trgm;",
                        "CREATE EXTENSION IF NOT EXISTS hstore;">>

----------------------------------------------------------------------------
(* C29 *)

\* C29: a tool call without an arguments object makes no remote call and ends in the
\* failure "Missing arguments", whatever its tool name is
C29_MissingArguments ==
    \A h \in Handlers :
        (Called(h) /\ ~req[h].hasArguments)
        => /\ Len(calls[h]) = 0
           /\ pc[h] = "failed"
           /\ result[h] = TextResult(<<"Error executing ", Tool(h), ": ", "Missing arguments">>)

\* list_clusters, which requires no argument, has failed without an arguments object
C29_Witness ==
    /\ Called(1) /\ ~req[1].hasArguments /\ Tool(1) = "list_clusters"
    /\ pc[1] = "failed" /\ Len(calls[1]) = 0
    /\ result[1].content[1].text[4] = "Missing arguments"

=============================================================================
